---- MODULE Spec2Model ----
(***************************************************************************)
(* Downsampling, zone classification, grid generation and merging, region  *)
(* decomposition and demand attribution of the UK-Heatmap repository       *)
(* (SmilewhiteHeatmap pipeline, DynamicArea grid generator, Region         *)
(* Generation downsampler and the root-level region generator).            *)
(*                                                                         *)
(* Geometry.  The plane is a row of unit cells 1..GridW along one axis     *)
(* (cell c is the closed square [c-1, c] x [0, 1], one cell = one degree). *)
(* A geometry is the set of cells it covers, so its area is the number of  *)
(* cells, union / intersection / difference of areas are the set           *)
(* operations, and the area-weighted centroid is the mean of the cell      *)
(* centres.  Parts of zero area (shared edges) are not part of a geometry; *)
(* they are visible only through Intersects, which is true of two closed   *)
(* geometries that merely touch.  The grids of the DynamicArea generator   *)
(* lie on a row of cells of one kilometre (1/111 of a degree).             *)
(***************************************************************************)
EXTENDS Integers, Sequences, FiniteSets, TLC

VARIABLES
    pc,             \* position in the run: which stage has produced its output
    variant,        \* which generate_regions.py is run: "SmilewhiteHeatmap" or "root"
    grids,          \* input of merge_nearby_squares (list of grid dicts)
    distance_km,    \* merge threshold given to merge_nearby_squares
    merged_grids,   \* output of merge_nearby_squares
    remerged_grids, \* merge_nearby_squares applied to its own output
    grids_gdf,      \* input rows of find_overlapping_regions
    regions,        \* output list of find_overlapping_regions
    customers_df,   \* demand events given to calculate_metrics
    start_date,     \* query window
    end_date,
    metrics_gdf,    \* per region metrics of calculate_metrics
    gaps_df,        \* gap rows of calculate_metrics
    clinics_df,     \* provider rows read by generate_grids.py / downsample_clinics.py
    config,         \* grid_config.json of SmilewhiteHeatmap/generate_grids.py
    area,           \* what the zone classifier returned for the first provider row
    n_clinics,      \* sample size asked of downsample_clinics
    n_per_area,     \* quota per postcode area
    sampled,        \* sampled_clinics of downsample_clinics: one sample per area so far
    returned,       \* index labels of the rows downsample_clinics returns
    given_ratio,    \* a capacity ratio given to both status classifiers
    statuses        \* the status each classifier gave to given_ratio

vars == <<pc, variant, grids, distance_km, merged_grids, remerged_grids,
          grids_gdf, regions, customers_df, start_date, end_date,
          metrics_gdf, gaps_df, clinics_df, config, area, n_clinics,
          n_per_area, sampled, returned, given_ratio, statuses>>

\* the variables of the grid generation inputs, of the downsampling and of
\* the status comparison
clinicVars == <<clinics_df, config, area>>
sampleVars == <<n_clinics, n_per_area, sampled, returned>>
statusVars == <<given_ratio, statuses>>

----------------------------------------------------------------------------
(* Bounds *)

GridW == 4
MaxGrids == 3

Cells == 1..GridW

\* km per degree used by the merge threshold conversion
KmPerDegree == 111

----------------------------------------------------------------------------
(* Small helpers *)

Abs(x) == IF x < 0 THEN -x ELSE x

RECURSIVE SumSet(_)
SumSet(S) == IF S = {} THEN 0
             ELSE LET x == CHOOSE y \in S : TRUE IN x + SumSet(S \ {x})

Range(s) == {s[k] : k \in 1..Len(s)}

RECURSIVE SumSeq(_)
SumSeq(s) == IF s = <<>> THEN 0 ELSE Head(s) + SumSeq(Tail(s))

\* sorted(list(set(ids)))
RECURSIVE SortedSeqOfSet(_)
SortedSeqOfSet(S) ==
    IF S = {} THEN <<>>
    ELSE LET m == CHOOSE x \in S : \A y \in S : x <= y
         IN <<m>> \o SortedSeqOfSet(S \ {m})

----------------------------------------------------------------------------
(* shapely geometry operations on cell sets *)

IsEmpty(g) == g = {}
Area(g) == Cardinality(g)
\* closed geometries intersect when they share a cell or an edge
Intersects(a, b) == \E c \in a, d \in b : Abs(c - d) <= 1
Intersection(a, b) == a \cap b
Difference(a, b) == a \ b
UnaryUnion(gs) == UNION gs
\* box(minx, miny, maxx, maxy): the cells west+1 .. east
Box(west, east) == (west + 1)..east
Boxes == {Box(w, e) : w \in 0..(GridW - 1), e \in 1..GridW} \ {{}}

----------------------------------------------------------------------------
(* Grid generation stage: generate_grids.py *)

\* weekly hours of the grid of clinic id: distinct powers of two, so that a
\* sum of hours identifies the set of grids it was summed over
HoursOf(id) == 2 ^ (id - 1)

\* one grid dict per clinic as create_grids_batch leaves it (the fields the
\* later stages read)
RawGrid(id, geom) ==
    [clinic_id |-> id, weekly_hours |-> HoursOf(id), geometry |-> geom]

RawGridLists ==
    {[k \in 1..Len(f) |-> RawGrid(k, f[k])] : f \in UNION {[1..m -> Boxes] : m \in 1..MaxGrids}}

\* geometry.centroid.x as the fraction CentroidNum / CentroidDen
CentroidNum(g) == 2 * SumSet(g) - Cardinality(g)
CentroidDen(g) == 2 * Cardinality(g)

\* euclidean distance of the two centroids <= eps_deg, eps_deg = distance_km / 111.0
\* (all centroids have the same centroid.y, the distance is the one along x;
\* both sides are multiplied by the denominators, so no division is rounded)
WithinEps(g1, g2, km) ==
    KmPerDegree * Abs(CentroidNum(g1) * CentroidDen(g2) - CentroidNum(g2) * CentroidDen(g1))
        <= km * CentroidDen(g1) * CentroidDen(g2)

\* a clustering that asks for two samples to start a cluster: a grid with no
\* neighbour is noise, and all noise shares the label -1
MinSamplesTwo == 1 + 1

\* DBSCAN(eps=eps_deg, min_samples=1)
MinSamples == 1

\* neighborhoods of DBSCAN: for every sample the samples within eps of it,
\* itself included, in index order
Neighborhoods(gs, km) ==
    [i \in 1..Len(gs) |->
        SelectSeq([v \in 1..Len(gs) |-> v],
                  LAMBDA v : WithinEps(gs[i].geometry, gs[v].geometry, km))]

\* inner loop of DBSCAN for one seed: label i, push its unlabelled
\* neighbours, pop the next sample, until the stack is empty
RECURSIVE Expand(_, _, _, _, _)
Expand(nbrs, labels, stack, i, label_num) ==
    LET fresh == labels[i] = -1
        labels1 == IF fresh THEN [labels EXCEPT ![i] = label_num] ELSE labels
        pushed == IF fresh /\ Len(nbrs[i]) >= MinSamples
                  THEN SelectSeq(nbrs[i], LAMBDA v : labels1[v] = -1)
                  ELSE <<>>
        stack1 == stack \o pushed
    IN IF stack1 = <<>> THEN labels1
       ELSE Expand(nbrs, labels1, SubSeq(stack1, 1, Len(stack1) - 1),
                   stack1[Len(stack1)], label_num)

\* outer loop of DBSCAN: every sample still unlabelled seeds the next label
RECURSIVE DbscanFrom(_, _, _, _)
DbscanFrom(nbrs, labels, i, label_num) ==
    IF i > Len(nbrs) THEN labels
    ELSE IF labels[i] # -1 \/ Len(nbrs[i]) < MinSamples
         THEN DbscanFrom(nbrs, labels, i + 1, label_num)
         ELSE DbscanFrom(nbrs, Expand(nbrs, labels, <<>>, i, label_num),
                         i + 1, label_num + 1)

\* DBSCAN(eps=eps_deg, min_samples=1).fit(centroids).labels_
DBSCANLabels(gs, km) ==
    DbscanFrom(Neighborhoods(gs, km), [i \in 1..Len(gs) |-> -1], 1, 0)

\* a merged grid that keeps the weekly hours of its first grid only
MergedGridFirstHours(gs, labels, cluster_id) ==
    LET indices == SelectSeq([v \in 1..Len(gs) |-> v], LAMBDA v : labels[v] = cluster_id)
        cluster_grids == [k \in 1..Len(indices) |-> gs[indices[k]]]
        clinic_ids == [k \in 1..Len(cluster_grids) |-> cluster_grids[k].clinic_id]
    IN [clinic_id |-> clinic_ids[1],
        all_clinic_ids |-> clinic_ids,
        weekly_hours |-> cluster_grids[1].weekly_hours,
        geometry |-> UnaryUnion({cluster_grids[k].geometry : k \in 1..Len(cluster_grids)})]

\* the merged grid of one cluster
MergedGrid(gs, labels, cluster_id) ==
    LET indices == SelectSeq([v \in 1..Len(gs) |-> v], LAMBDA v : labels[v] = cluster_id)
        cluster_grids == [k \in 1..Len(indices) |-> gs[indices[k]]]
        clinic_ids == [k \in 1..Len(cluster_grids) |-> cluster_grids[k].clinic_id]
    IN [clinic_id |-> clinic_ids[1],
        all_clinic_ids |-> clinic_ids,
        weekly_hours |-> SumSeq([k \in 1..Len(cluster_grids) |-> cluster_grids[k].weekly_hours]),
        geometry |-> UnaryUnion({cluster_grids[k].geometry : k \in 1..Len(cluster_grids)})]

\* the clustering and merging of merge_nearby_squares past its guard
MergeClusters(gs, km) ==
    LET labels == DBSCANLabels(gs, km)
        unique == SortedSeqOfSet({labels[i] : i \in 1..Len(gs)})
    IN [c \in 1..Len(unique) |-> MergedGrid(gs, labels, unique[c])]

\* a guard that lets the distance zero through to the clustering
merge_nearby_squares_strict_guard(gs, km) ==
    IF km < 0 THEN gs ELSE MergeClusters(gs, km)

merge_nearby_squares(gs, km) ==
    IF km <= 0 THEN gs ELSE MergeClusters(gs, km)

\* merge distances tried, in km
MergeDistances == {-111, 0, 111, 222}

\* main of generate_grids.py: the rows written to clinic_grids.geojson and
\* clinic_grids.csv, as generate_regions.py joins them again (all_clinic_ids
\* is a JSON list of integers on the way; the list read back is the list
\* written)
GridRows(gs) ==
    [k \in 1..Len(gs) |->
        [clinic_id |-> gs[k].clinic_id,
         all_clinic_ids |-> IF "all_clinic_ids" \in DOMAIN gs[k]
                            THEN gs[k].all_clinic_ids
                            ELSE <<gs[k].clinic_id>>,
         weekly_hours |-> gs[k].weekly_hours,
         geometry |-> gs[k].geometry]]

----------------------------------------------------------------------------
(* Zone classifier and grid creation of DynamicArea *)

\* Coordinates of the DynamicArea programs are whole numbers of units, one
\* degree being KmPerDegree * UnitsPerKm units: a kilometre along a meridian
\* (km / 111.0 degrees) is UnitsPerKm units, and a bound of the city table,
\* written with four decimals of a degree, is KmPerDegree times its number
\* of 1/10000 degrees.  The row of cells runs along a meridian, one cell is
\* one kilometre.
UnitsPerKm == 10000

\* CITY_BOUNDARIES in dictionary order, the bounds in 1/10000 degree
CITY_BOUNDARIES ==
    << [city |-> "London",     min_lon |->  -5103, min_lat |-> 512868, max_lon |->   3340, max_lat |-> 516923],
       [city |-> "Manchester", min_lon |-> -23026, min_lat |-> 533997, max_lon |-> -20632, max_lat |-> 535397],
       [city |-> "Birmingham", min_lon |-> -20336, min_lat |-> 523810, max_lon |-> -17288, max_lat |-> 525730],
       [city |-> "Leeds",      min_lon |-> -17229, min_lat |-> 537457, max_lon |-> -13847, max_lat |-> 538957],
       [city |-> "Glasgow",    min_lon |-> -43932, min_lat |-> 557944, max_lon |-> -40661, max_lat |-> 559288],
       [city |-> "Edinburgh",  min_lon |-> -32973, min_lat |-> 558927, max_lon |-> -31383, max_lat |-> 560011],
       [city |-> "Liverpool",  min_lon |-> -30187, min_lat |-> 533336, max_lon |-> -28219, max_lat |-> 534875],
       [city |-> "Newcastle",  min_lon |-> -17062, min_lat |-> 549479, max_lon |-> -15231, max_lat |-> 550421],
       [city |-> "Sheffield",  min_lon |-> -15437, min_lat |-> 533220, max_lon |-> -13924, max_lat |-> 534308],
       [city |-> "Bristol",    min_lon |-> -27129, min_lat |-> 514094, max_lon |-> -25157, max_lat |-> 515429] >>

\* grid sizes in km
GRID_SIZES == [metropolitan |-> 15, urban |-> 20, suburban |-> 25, rural |-> 30]

CITY_TYPES ==
    [London |-> "metropolitan", Manchester |-> "urban", Birmingham |-> "urban",
     Leeds |-> "urban", Glasgow |-> "urban", Edinburgh |-> "urban",
     Liverpool |-> "urban", Newcastle |-> "urban", Sheffield |-> "urban",
     Bristol |-> "urban"]

\* min_lon <= lon <= max_lon and min_lat <= lat <= max_lat
InCityBounds(lon, lat, bounds) ==
    /\ bounds.min_lon * KmPerDegree <= lon
    /\ lon <= bounds.max_lon * KmPerDegree
    /\ bounds.min_lat * KmPerDegree <= lat
    /\ lat <= bounds.max_lat * KmPerDegree

\* the loop of get_area_type from the city at position i on
RECURSIVE AreaTypeFrom(_, _, _)
AreaTypeFrom(lon, lat, i) ==
    IF i > Len(CITY_BOUNDARIES) THEN "rural"
    ELSE IF InCityBounds(lon, lat, CITY_BOUNDARIES[i])
         THEN CITY_TYPES[CITY_BOUNDARIES[i].city]
         ELSE AreaTypeFrom(lon, lat, i + 1)

get_area_type(lon, lat) == AreaTypeFrom(lon, lat, 1)

get_grid_size(lon, lat) == GRID_SIZES[get_area_type(lon, lat)]

\* km_to_deg(km, lat)['lat'] = km / 111.0 degrees, in units (the east-west
\* extent km_to_deg(km, lat)['lon'] lies across the row and is no part of
\* the geometry)
km_to_deg_lat(km) == km * UnitsPerKm

\* create_square_grid(lat, lon, radius_km): box(minx, miny, maxx, maxy), the
\* cells between miny and maxy
create_square_grid(lat, lon, radius_km) ==
    Box((lat - km_to_deg_lat(radius_km)) \div UnitsPerKm,
        (lat + km_to_deg_lat(radius_km)) \div UnitsPerKm)

\* the loop of main over the clinic rows: one grid_data per row
DynamicGrids(clinics) ==
    [k \in 1..Len(clinics) |->
        [clinic_id |-> clinics[k].id,
         weekly_hours |-> clinics[k].weekly_availability_hours,
         geometry |-> create_square_grid(clinics[k].latitude, clinics[k].longitude,
                                         get_grid_size(clinics[k].longitude, clinics[k].latitude)),
         area_type |-> get_area_type(clinics[k].longitude, clinics[k].latitude)]]

\* distance of the two centroids <= eps_deg = distance_km / 111.0: a cell is
\* 1/111 of a degree, so the distance in cells is compared with distance_km
DynamicWithinEps(g1, g2, km) ==
    Abs(CentroidNum(g1) * CentroidDen(g2) - CentroidNum(g2) * CentroidDen(g1))
        <= km * CentroidDen(g1) * CentroidDen(g2)

DynamicNeighborhoods(gs, km) ==
    [i \in 1..Len(gs) |->
        SelectSeq([v \in 1..Len(gs) |-> v],
                  LAMBDA v : DynamicWithinEps(gs[i].geometry, gs[v].geometry, km))]

\* the merged grid of one cluster, with the area type of its first grid
DynamicMergedGrid(gs, labels, cluster_id) ==
    LET indices == SelectSeq([v \in 1..Len(gs) |-> v], LAMBDA v : labels[v] = cluster_id)
        cluster_grids == [k \in 1..Len(indices) |-> gs[indices[k]]]
        clinic_ids == [k \in 1..Len(cluster_grids) |-> cluster_grids[k].clinic_id]
    IN [clinic_id |-> clinic_ids[1],
        all_clinic_ids |-> clinic_ids,
        weekly_hours |-> SumSeq([k \in 1..Len(cluster_grids) |-> cluster_grids[k].weekly_hours]),
        geometry |-> UnaryUnion({cluster_grids[k].geometry : k \in 1..Len(cluster_grids)}),
        area_type |-> cluster_grids[1].area_type]

\* merge_nearby_squares of DynamicArea/generate_grids.py
dynamic_merge_nearby_squares(gs, km) ==
    IF km <= 0 THEN gs
    ELSE LET labels == DbscanFrom(DynamicNeighborhoods(gs, km),
                                  [i \in 1..Len(gs) |-> -1], 1, 0)
             unique == SortedSeqOfSet({labels[i] : i \in 1..Len(gs)})
         IN [c \in 1..Len(unique) |-> DynamicMergedGrid(gs, labels, unique[c])]

\* grid['all_clinic_ids'] of the record loop of main raises KeyError for a
\* grid dict without that key
RaisesKeyError(gs) == \E k \in 1..Len(gs) : "all_clinic_ids" \notin DOMAIN gs[k]

\* csv_grids of main joined with the geometry of geojson_grids (the rows of
\* clinic_grids.csv and clinic_grids.geojson), when no KeyError is raised
DynamicGridRows(gs) ==
    [k \in 1..Len(gs) |->
        [clinic_id |-> gs[k].clinic_id,
         all_clinic_ids |-> gs[k].all_clinic_ids,
         weekly_hours |-> gs[k].weekly_hours,
         geometry |-> gs[k].geometry,
         area_type |-> gs[k].area_type]]

----------------------------------------------------------------------------
(* Zone classifier and grid creation of SmilewhiteHeatmap *)

\* Coordinates of the SmilewhiteHeatmap programs are whole degrees (one cell
\* of the row is one degree of latitude).

\* cos(radians(54)) in 1/10000
CosLat54 == 5878

\* km_to_deg(km): the whole degrees in km / 111.0 and in km / (111.0 *
\* cos(54 deg)); a coordinate is a whole number of degrees, so it is within
\* the exact quotient of a centre exactly when it is within the whole part
km_to_deg(km) ==
    [lat |-> km \div KmPerDegree,
     lon |-> (km * 10000) \div (KmPerDegree * CosLat54)]

\* a square that leaves its own border out
point_in_open_area(point_lon, point_lat, a) ==
    LET deg == km_to_deg(a.radius_km)
        min_lon == a.center[1] - deg.lon
        max_lon == a.center[1] + deg.lon
        min_lat == a.center[2] - deg.lat
        max_lat == a.center[2] + deg.lat
    IN (min_lon < point_lon /\ point_lon < max_lon)
       /\ (min_lat < point_lat /\ point_lat < max_lat)

\* area['center'] is [lon, lat]
point_in_dynamic_area(point_lon, point_lat, a) ==
    LET deg == km_to_deg(a.radius_km)
        min_lon == a.center[1] - deg.lon
        max_lon == a.center[1] + deg.lon
        min_lat == a.center[2] - deg.lat
        max_lat == a.center[2] + deg.lat
    IN (min_lon <= point_lon /\ point_lon <= max_lon)
       /\ (min_lat <= point_lat /\ point_lat <= max_lat)

\* the loop of get_grid_size_for_location from the area at position i on
RECURSIVE GridSizeFrom(_, _, _, _)
GridSizeFrom(lon, lat, cfg, i) ==
    IF i > Len(cfg.dynamic_areas) THEN cfg.base_grid_size
    ELSE IF point_in_dynamic_area(lon, lat, cfg.dynamic_areas[i])
         THEN cfg.dynamic_sizes[cfg.dynamic_areas[i].name]
         ELSE GridSizeFrom(lon, lat, cfg, i + 1)

get_grid_size_for_location(lon, lat, cfg) == GridSizeFrom(lon, lat, cfg, 1)

\* scaled_hours = weekly_availability_hours * (grid_size / base_grid_size) ** 2
\* (a whole number for the hours and sizes of ClinicRows and Configs)
ScaledHours(hours, grid_size, base_grid_size) ==
    (hours * grid_size * grid_size) \div (base_grid_size * base_grid_size)

\* create_grids_batch(clinics_df, config): box(minx, miny, maxx, maxy) is the
\* cells between miny and maxy
create_grids_batch(clinics, cfg) ==
    [k \in 1..Len(clinics) |->
        LET row == clinics[k]
            grid_size == get_grid_size_for_location(row.longitude, row.latitude, cfg)
            deg == km_to_deg(grid_size)
        IN [clinic_id |-> row.id,
            weekly_hours |-> ScaledHours(row.weekly_availability_hours, grid_size,
                                         cfg.base_grid_size),
            geometry |-> Box(row.latitude - deg.lat, row.latitude + deg.lat),
            grid_size |-> grid_size]]

----------------------------------------------------------------------------
(* Downsampling stage: Region Generation/downsample_clinics.py *)

\* the index labels of the rows with active == 1
active_clinics(df) == {k \in 1..Len(df) : df[k].active = 1}

\* postcode.str[:2]: the first two characters of the postcode
postcode_area(postcode) == SubSeq(postcode, 1, 2)

\* the active rows of one postcode area
area_clinics(df, a) == {k \in active_clinics(df) : postcode_area(df[k].postcode) = a}

\* the orders of the areas S, most frequent first, areas of equal frequency
\* in any order
RECURSIVE Descending(_, _)
Descending(df, S) ==
    IF S = {} THEN {<<>>}
    ELSE UNION {{<<a>> \o rest : rest \in Descending(df, S \ {a})} :
                   a \in {x \in S : \A y \in S : Cardinality(area_clinics(df, x))
                                                   >= Cardinality(area_clinics(df, y))}}

\* value_counts(): the areas of the active rows in one of these orders
area_counts(df) ==
    Descending(df, {postcode_area(df[k].postcode) : k \in active_clinics(df)})

\* count / total * n lies halfway between two whole numbers
Halfway(count, total, n) == 2 * ((count * n) % total) = total

\* (count / total * n).round(): the nearest whole number; a product that
\* lies halfway between two whole numbers, or one floating point step off
\* it, goes down or, with up, up
Rounded(count, total, n, up) ==
    LET low == (count * n) \div total
        rest == (count * n) % total
    IN IF 2 * rest < total THEN low
       ELSE IF 2 * rest > total THEN low + 1
       ELSE IF up THEN low + 1 ELSE low

\* n_per_area.sum()
QuotaSum(quotas) == SumSeq([k \in 1..Len(quotas) |-> quotas[k].n])

\* n_per_area.idxmax(): the first position with the largest quota
idxmax(quotas) ==
    CHOOSE k \in 1..Len(quotas) :
        /\ \A j \in 1..Len(quotas) : quotas[j].n <= quotas[k].n
        /\ \A j \in 1..(k - 1) : quotas[j].n < quotas[k].n

\* DataFrame.sample(n=size) of the rows S: any size of them; a negative size
\* or one above the number of rows raises ValueError (no sample)
Samples(S, size) ==
    IF size < 0 \/ size > Cardinality(S) THEN {}
    ELSE {T \in SUBSET S : Cardinality(T) = size}

\* a top-up that draws nothing
NoAdditional(n, drawn) == 0

\* the number of rows the top-up draws: n_clinics - len(result)
Additional(n, drawn) == n - drawn

Min(x, y) == IF x < y THEN x ELSE y

----------------------------------------------------------------------------
(* Region decomposition stage: generate_regions.py *)

\* itertools.combinations(range(lo, n+1), k) as a list of index lists, in
\* lexicographic order
RECURSIVE CombosFrom(_, _, _)
CombosFrom(n, k, lo) ==
    IF k = 0 THEN << <<>> >>
    ELSE IF lo > n THEN <<>>
    ELSE LET with == CombosFrom(n, k - 1, lo + 1)
         IN [c \in 1..Len(with) |-> <<lo>> \o with[c]] \o CombosFrom(n, k, lo + 1)

\* the combinations up to one grid fewer than all overlapping grids
RECURSIVE AllCombosButLargest(_, _)
AllCombosButLargest(m, k) ==
    IF k > m - 1 THEN <<>> ELSE CombosFrom(m, k, 1) \o AllCombosButLargest(m, k + 1)

\* for n in range(2, len(overlapping) + 2): for combo in combinations(overlapping, n-1)
RECURSIVE AllCombos(_, _)
AllCombos(m, k) ==
    IF k > m THEN <<>> ELSE CombosFrom(m, k, 1) \o AllCombos(m, k + 1)

\* a geometry from which the processed parts are not removed
RemoveProcessedNothing(geom, processed_geometries) == geom

\* current_geom after "remove any parts that have been processed"
RemoveProcessed(geom, processed_geometries) ==
    Difference(geom, UnaryUnion({p \in processed_geometries : Intersects(geom, p)}))

\* grid_list of find_overlapping_regions (SmilewhiteHeatmap)
GridList(gdf) ==
    [k \in 1..Len(gdf) |->
        [geometry |-> gdf[k].geometry,
         clinic_id |-> gdf[k].clinic_id,
         weekly_hours |-> gdf[k].weekly_hours,
         all_ids |-> IF "all_clinic_ids" \in DOMAIN gdf[k]
                     THEN gdf[k].all_clinic_ids
                     ELSE <<gdf[k].clinic_id>>]]

\* the grids j # i whose intersection with current_geom has positive area
Overlapping(grid_list, i, current_geom) ==
    SelectSeq([j \in 1..Len(grid_list) |-> j],
              LAMBDA j : /\ i # j
                         /\ Intersects(current_geom, grid_list[j].geometry)
                         /\ ~IsEmpty(Intersection(current_geom, grid_list[j].geometry))
                         /\ Area(Intersection(current_geom, grid_list[j].geometry)) > 0)

\* a region of a combination that carries the hours of the base grid only
ComboRegionBaseHours(grid_list, i, overlapping, combo, processed_geometries, region_id) ==
    LET base == grid_list[i]
        others == [k \in 1..Len(combo) |-> grid_list[overlapping[combo[k]]]]
        intersection_geom ==
            {c \in base.geometry : \A k \in 1..Len(others) : c \in others[k].geometry}
        all_clinic_ids == Range(base.all_ids)
                            \cup UNION {Range(others[k].all_ids) : k \in 1..Len(others)}
        current_intersection == RemoveProcessed(intersection_geom, processed_geometries)
    IN IF ~IsEmpty(intersection_geom) /\ Area(intersection_geom) > 0
          /\ ~IsEmpty(current_intersection)
       THEN << [region_id |-> region_id,
                clinic_ids |-> SortedSeqOfSet(all_clinic_ids),
                total_availability_hours |-> base.weekly_hours,
                geometry |-> current_intersection] >>
       ELSE <<>>

\* the region of one combination of overlapping grids, or <<>> when nothing
\* of it is left
ComboRegion(grid_list, i, overlapping, combo, processed_geometries, region_id) ==
    LET base == grid_list[i]
        others == [k \in 1..Len(combo) |-> grid_list[overlapping[combo[k]]]]
        intersection_geom ==
            {c \in base.geometry : \A k \in 1..Len(others) : c \in others[k].geometry}
        total_hours == base.weekly_hours
                         + SumSeq([k \in 1..Len(others) |-> others[k].weekly_hours])
        all_clinic_ids == Range(base.all_ids)
                            \cup UNION {Range(others[k].all_ids) : k \in 1..Len(others)}
        current_intersection == RemoveProcessed(intersection_geom, processed_geometries)
    IN IF ~IsEmpty(intersection_geom) /\ Area(intersection_geom) > 0
          /\ ~IsEmpty(current_intersection)
       THEN << [region_id |-> region_id,
                clinic_ids |-> SortedSeqOfSet(all_clinic_ids),
                total_availability_hours |-> total_hours,
                geometry |-> current_intersection] >>
       ELSE <<>>

\* "process overlapping regions": one candidate region per combination
RECURSIVE ComboRegions(_, _, _, _, _, _, _)
ComboRegions(grid_list, i, overlapping, combos, c, processed_geometries, region_id) ==
    IF c > Len(combos) THEN <<>>
    ELSE LET r == ComboRegion(grid_list, i, overlapping, combos[c],
                              processed_geometries, region_id)
         IN r \o ComboRegions(grid_list, i, overlapping, combos, c + 1,
                              processed_geometries, region_id + Len(r))

\* one iteration of "for i in range(n_grids)": the regions it appends
GridRegions(grid_list, i, processed_geometries, region_id) ==
    LET base == grid_list[i]
        current_geom == RemoveProcessed(base.geometry, processed_geometries)
        overlapping == Overlapping(grid_list, i, current_geom)
        remainder ==
            Difference(current_geom,
                       UnaryUnion({grid_list[overlapping[k]].geometry : k \in 1..Len(overlapping)}))
        own == IF ~IsEmpty(remainder)
               THEN << [region_id |-> region_id,
                        clinic_ids |-> base.all_ids,
                        total_availability_hours |-> base.weekly_hours,
                        geometry |-> remainder] >>
               ELSE <<>>
    IN IF IsEmpty(current_geom) THEN <<>>
       ELSE own \o ComboRegions(grid_list, i, overlapping,
                                AllCombos(Len(overlapping), 1), 1,
                                processed_geometries, region_id + Len(own))

\* a loop over the grids that stops before the last grid
RECURSIVE RegionLoopButLast(_, _, _, _)
RegionLoopButLast(grid_list, i, processed_geometries, acc) ==
    IF i >= Len(grid_list) THEN acc
    ELSE LET new == GridRegions(grid_list, i, processed_geometries, Len(acc) + 1)
             skipped == IsEmpty(RemoveProcessed(grid_list[i].geometry, processed_geometries))
         IN RegionLoopButLast(grid_list, i + 1,
                              IF skipped THEN processed_geometries
                              ELSE processed_geometries \cup {grid_list[i].geometry},
                              acc \o new)

\* for i in range(n_grids): the regions of every grid, in order
RECURSIVE RegionLoop(_, _, _, _)
RegionLoop(grid_list, i, processed_geometries, acc) ==
    IF i > Len(grid_list) THEN acc
    ELSE LET new == GridRegions(grid_list, i, processed_geometries, Len(acc) + 1)
             skipped == IsEmpty(RemoveProcessed(grid_list[i].geometry, processed_geometries))
         IN RegionLoop(grid_list, i + 1,
                       IF skipped THEN processed_geometries
                       ELSE processed_geometries \cup {grid_list[i].geometry},
                       acc \o new)

\* SmilewhiteHeatmap/generate_regions.py
find_overlapping_regions(gdf) == RegionLoop(GridList(gdf), 1, {}, <<>>)

\* root generate_regions.py: "process overlapping regions", one region per
\* overlapping grid, from the stored intersection with current_geom
RECURSIVE PairRegions(_, _, _, _, _, _, _)
PairRegions(grid_list, i, current_geom, overlapping, k, processed_geometries, region_id) ==
    IF k > Len(overlapping) THEN <<>>
    ELSE LET other == grid_list[overlapping[k]]
             intersection == Intersection(current_geom, other.geometry)
             current_intersection == RemoveProcessed(intersection, processed_geometries)
             r == IF ~IsEmpty(current_intersection)
                  THEN << [region_id |-> region_id,
                           clinic_ids |-> SortedSeqOfSet({grid_list[i].clinic_id, other.clinic_id}),
                           total_availability_hours |->
                               grid_list[i].weekly_hours + other.weekly_hours,
                           geometry |-> current_intersection] >>
                  ELSE <<>>
         IN r \o PairRegions(grid_list, i, current_geom, overlapping, k + 1,
                             processed_geometries, region_id + Len(r))

\* root generate_regions.py: one iteration of "for i in range(n_grids)"
GridRegionsRoot(grid_list, i, processed_geometries, region_id) ==
    LET base == grid_list[i]
        current_geom == RemoveProcessed(base.geometry, processed_geometries)
        overlapping == Overlapping(grid_list, i, current_geom)
        remainder ==
            Difference(current_geom,
                       UnaryUnion({Intersection(current_geom, grid_list[overlapping[k]].geometry) :
                                     k \in 1..Len(overlapping)}))
        own == IF ~IsEmpty(remainder)
               THEN << [region_id |-> region_id,
                        clinic_ids |-> <<base.clinic_id>>,
                        total_availability_hours |-> base.weekly_hours,
                        geometry |-> remainder] >>
               ELSE <<>>
    IN IF IsEmpty(current_geom) THEN <<>>
       ELSE own \o PairRegions(grid_list, i, current_geom, overlapping, 1,
                               processed_geometries, region_id + Len(own))

RECURSIVE RegionLoopRoot(_, _, _, _)
RegionLoopRoot(grid_list, i, processed_geometries, acc) ==
    IF i > Len(grid_list) THEN acc
    ELSE LET new == GridRegionsRoot(grid_list, i, processed_geometries, Len(acc) + 1)
             skipped == IsEmpty(RemoveProcessed(grid_list[i].geometry, processed_geometries))
         IN RegionLoopRoot(grid_list, i + 1,
                           IF skipped THEN processed_geometries
                           ELSE processed_geometries \cup {grid_list[i].geometry},
                           acc \o new)

\* root generate_regions.py (reads clinic_id, weekly_hours and geometry only)
find_overlapping_regions_root(gdf) ==
    RegionLoopRoot([k \in 1..Len(gdf) |->
                       [geometry |-> gdf[k].geometry,
                        clinic_id |-> gdf[k].clinic_id,
                        weekly_hours |-> gdf[k].weekly_hours]], 1, {}, <<>>)

Variants == {"SmilewhiteHeatmap", "root"}

FindRegions(v, gdf) ==
    IF v = "root" THEN find_overlapping_regions_root(gdf)
    ELSE find_overlapping_regions(gdf)

----------------------------------------------------------------------------
(* Pairwise region splitting: find_all_regions of generate_regions.py *)

PairRegion(geom, ids, hours) ==
    [geometry |-> geom, clinic_ids |-> ids, total_availability |-> hours]

\* find_regions_for_grid_pair(grid1, grid2, metadata1, metadata2): grids
\* that intersect in no area (they touch) get no region at all
find_regions_for_grid_pair(grid1, grid2, metadata1, metadata2) ==
    IF Intersects(grid1, grid2)
    THEN LET intersection == Intersection(grid1, grid2)
             diff1 == Difference(grid1, grid2)
             diff2 == Difference(grid2, grid1)
         IN IF Area(intersection) > 0
            THEN <<PairRegion(intersection,
                              <<metadata1.clinic_id, metadata2.clinic_id>>,
                              metadata1.weekly_hours + metadata2.weekly_hours)>>
                 \o (IF ~IsEmpty(diff1)
                     THEN <<PairRegion(diff1, <<metadata1.clinic_id>>, metadata1.weekly_hours)>>
                     ELSE <<>>)
                 \o (IF ~IsEmpty(diff2)
                     THEN <<PairRegion(diff2, <<metadata2.clinic_id>>, metadata2.weekly_hours)>>
                     ELSE <<>>)
            ELSE <<>>
    ELSE <<PairRegion(grid1, <<metadata1.clinic_id>>, metadata1.weekly_hours),
           PairRegion(grid2, <<metadata2.clinic_id>>, metadata2.weekly_hours)>>

\* "for region in current_regions" of find_all_regions from position r on:
\* the regions split by the grid gs[j]
RECURSIVE SplitRegions(_, _, _, _)
SplitRegions(current_regions, r, gs, j) ==
    IF r > Len(current_regions) THEN <<>>
    ELSE LET region == current_regions[r]
             sub_regions ==
                 IF Intersects(region.geometry, gs[j].geometry)
                 THEN find_regions_for_grid_pair(
                          region.geometry, gs[j].geometry,
                          [clinic_id |-> region.clinic_ids[1],
                           weekly_hours |-> region.total_availability],
                          [clinic_id |-> gs[j].clinic_id, weekly_hours |-> gs[j].weekly_hours])
                 ELSE <<region>>
         IN sub_regions \o SplitRegions(current_regions, r + 1, gs, j)

\* "for j in range(i + 1, n)" of find_all_regions from j on
RECURSIVE SplitByLaterGrids(_, _, _)
SplitByLaterGrids(current_regions, gs, j) ==
    IF j > Len(gs) THEN current_regions
    ELSE SplitByLaterGrids(SplitRegions(current_regions, 1, gs, j), gs, j + 1)

\* "add unique regions to the final list" from position r on (the WKT of a
\* geometry stands for the area it covers)
RECURSIVE AddUnique(_, _, _)
AddUnique(all_regions, current_regions, r) ==
    IF r > Len(current_regions) THEN all_regions
    ELSE AddUnique(IF \E a \in 1..Len(all_regions) :
                          all_regions[a].geometry = current_regions[r].geometry
                   THEN all_regions
                   ELSE Append(all_regions, current_regions[r]),
                   current_regions, r + 1)

\* "for i in range(n)" of find_all_regions from i on
RECURSIVE AllRegionsFrom(_, _, _)
AllRegionsFrom(gs, i, all_regions) ==
    IF i > Len(gs) THEN all_regions
    ELSE LET current_regions ==
                 SplitByLaterGrids(
                     <<PairRegion(gs[i].geometry, <<gs[i].clinic_id>>, gs[i].weekly_hours)>>,
                     gs, i + 1)
         IN AllRegionsFrom(gs, i + 1, AddUnique(all_regions, current_regions, 1))

find_all_regions(grids_with_metadata) == AllRegionsFrom(grids_with_metadata, 1, <<>>)

----------------------------------------------------------------------------
(* Demand attribution stage: visualize_regions.py *)

\* A location is a longitude in half-cell units: 2c-1 is the centre of cell
\* c, 2c the edge shared by the cells c and c+1.
\* geometry.contains(Point): the point lies in the interior of the geometry
Contains(geom, x) ==
    IF x % 2 = 1 THEN ((x + 1) \div 2) \in geom
    ELSE (x \div 2) \in geom /\ ((x \div 2) + 1) \in geom

\* mask = (assigned_date >= start_date) & (assigned_date <= end_date)
InPeriod(customers, start, end) ==
    SelectSeq(customers, LAMBDA c : c.assigned_date >= start /\ c.assigned_date <= end)

\* drop_duplicates(subset=['customer_id']): the first row of every customer_id
RECURSIVE DropDuplicates(_, _)
DropDuplicates(customers, seen) ==
    IF customers = <<>> THEN <<>>
    ELSE IF Head(customers).customer_id \in seen
         THEN DropDuplicates(Tail(customers), seen)
         ELSE <<Head(customers)>>
                \o DropDuplicates(Tail(customers), seen \cup {Head(customers).customer_id})

\* period_customers of calculate_metrics
PeriodCustomers(customers, start, end) ==
    DropDuplicates(InPeriod(customers, start, end), {})

\* the rows of period_customers inside one region
RegionCustomers(region, period_customers) ==
    SelectSeq(period_customers, LAMBDA c : Contains(region.geometry, c.longitude))

\* customer_count / total_availability_hours followed by fillna(0), as the
\* fraction num / den; den = 0 stands for float infinity
CapacityRatio(customer_count, hours) ==
    IF hours = 0
    THEN IF customer_count = 0 THEN [num |-> 0, den |-> 1] ELSE [num |-> 1, den |-> 0]
    ELSE [num |-> customer_count, den |-> hours]

\* ratio < a/b and ratio <= a/b
RatioLt(r, a, b) == r.den # 0 /\ r.num * b < a * r.den
RatioLe(r, a, b) == r.den # 0 /\ r.num * b <= a * r.den

get_status(ratio) ==
    IF ratio.den # 0 /\ ratio.num = 0 THEN "Empty"
    ELSE IF RatioLt(ratio, 25, 100) THEN "Partially Empty"
    ELSE IF RatioLe(ratio, 50, 100) THEN "moderately Full"
    ELSE IF RatioLe(ratio, 75, 100) THEN "Partially Full"
    ELSE IF RatioLe(ratio, 85, 100) THEN "Nearly Full"
    ELSE IF RatioLe(ratio, 1, 1) THEN "At Capacity"
    ELSE "Overcrowded"

\* the customers of the period (not de-duplicated) that no region contains
find_service_gaps(customers, regions_gdf, start, end) ==
    SelectSeq(InPeriod(customers, start, end),
              LAMBDA c : ~\E a \in 1..Len(regions_gdf) :
                              Contains(regions_gdf[a].geometry, c.longitude))

\* load_data: the regions read back, with the number of clinics of each
load_data(rs) ==
    [a \in 1..Len(rs) |->
        [region_id |-> rs[a].region_id,
         clinic_ids |-> rs[a].clinic_ids,
         total_availability_hours |-> rs[a].total_availability_hours,
         geometry |-> rs[a].geometry,
         clinic_count |-> Len(rs[a].clinic_ids)]]

\* metrics_gdf of calculate_metrics
calculate_metrics(regions_gdf, customers, start, end) ==
    [a \in 1..Len(regions_gdf) |->
        LET customer_count ==
                Len(RegionCustomers(regions_gdf[a], PeriodCustomers(customers, start, end)))
            capacity_ratio ==
                CapacityRatio(customer_count, regions_gdf[a].total_availability_hours)
        IN [region_id |-> regions_gdf[a].region_id,
            clinic_ids |-> regions_gdf[a].clinic_ids,
            total_availability_hours |-> regions_gdf[a].total_availability_hours,
            geometry |-> regions_gdf[a].geometry,
            clinic_count |-> regions_gdf[a].clinic_count,
            customer_count |-> customer_count,
            capacity_ratio |-> capacity_ratio,
            status |-> get_status(capacity_ratio)]]

\* demand events: who, where (half-cell longitude), on which day
MaxCustomers == 2
MaxDay == 3
Days == 1..MaxDay
CustomerIds == {1, 2}
\* centres of the cells 1, 2, 3, the edge between the cells 2 and 3, and the
\* centre of a cell beyond every grid
EventLongitudes == {1, 3, 4, 5, 2 * GridW + 1}
Customers ==
    [customer_id : CustomerIds, longitude : EventLongitudes, assigned_date : Days]
CustomerLists == UNION {[1..n -> Customers] : n \in 0..MaxCustomers}

\* grid lists the attribution is run on: apart, identical, a chain, three
\* mutually overlapping, nested
AttributionGrids ==
    { <<RawGrid(1, Box(0, 2)), RawGrid(2, Box(2, 4))>>,
      <<RawGrid(1, Box(0, 2)), RawGrid(2, Box(0, 2))>>,
      <<RawGrid(1, Box(0, 2)), RawGrid(2, Box(1, 3)), RawGrid(3, Box(2, 4))>>,
      <<RawGrid(1, Box(0, 3)), RawGrid(2, Box(1, 4)), RawGrid(3, Box(1, 3))>>,
      <<RawGrid(1, Box(0, 3)), RawGrid(2, Box(1, 2))>> }

----------------------------------------------------------------------------
(* Demand attribution stage: process_customers.py *)

\* "ensure the date range is within a week": the end date the filter uses
EffectiveEnd(start, end) == IF end - start > 7 THEN start + 6 ELSE end

\* days_in_period = min((end_date - start_date).days + 1, 7)
DaysInPeriod(start, end) == IF end - start + 1 < 7 THEN end - start + 1 ELSE 7

\* customer_count / period_hours if period_hours > 0 else inf, with
\* period_hours = (weekly_hours / 7) * days_in_period, as the fraction
\* num / den; den = 0 stands for float infinity
PeriodRatio(customer_count, weekly_hours, days_in_period) ==
    IF weekly_hours * days_in_period > 0
    THEN [num |-> customer_count * 7, den |-> weekly_hours * days_in_period]
    ELSE [num |-> 1, den |-> 0]

\* "determine status" of calculate_region_capacity
region_status(ratio) ==
    IF ratio.den = 0 THEN "No Availability"
    ELSE IF ratio.num = 0 THEN "Empty"
    ELSE IF RatioLe(ratio, 25, 100) THEN "Low Utilization"
    ELSE IF RatioLe(ratio, 50, 100) THEN "Partially Full"
    ELSE IF RatioLe(ratio, 75, 100) THEN "Moderately Full"
    ELSE IF RatioLe(ratio, 90, 100) THEN "Near Capacity"
    ELSE IF RatioLe(ratio, 1, 1) THEN "At Capacity"
    ELSE "Overcrowded"

\* gap_record of calculate_region_capacity: where and when, not who
GapRecord(c) == [longitude |-> c.longitude, assigned_date |-> c.assigned_date]

\* gaps_df of calculate_region_capacity: one record per customer of the
\* period that no region contains
RegionCapacityGaps(regions_gdf, period_customers) ==
    LET gaps == SelectSeq(period_customers,
                          LAMBDA c : ~\E a \in 1..Len(regions_gdf) :
                                          Contains(regions_gdf[a].geometry, c.longitude))
    IN [k \in 1..Len(gaps) |-> GapRecord(gaps[k])]

\* calculate_region_capacity: metrics_gdf and gaps_df
calculate_region_capacity(regions_gdf, customers, start, end) ==
    LET end_date_used == EffectiveEnd(start, end)
        period_customers == InPeriod(customers, start, end_date_used)
        days_in_period == DaysInPeriod(start, end_date_used)
    IN [metrics_gdf |->
           [a \in 1..Len(regions_gdf) |->
               LET customer_count == Len(RegionCustomers(regions_gdf[a], period_customers))
                   capacity_ratio ==
                       PeriodRatio(customer_count, regions_gdf[a].total_availability_hours,
                                   days_in_period)
               IN [region_id |-> regions_gdf[a].region_id,
                   clinic_ids |-> regions_gdf[a].clinic_ids,
                   total_availability_hours |-> regions_gdf[a].total_availability_hours,
                   geometry |-> regions_gdf[a].geometry,
                   customer_count |-> customer_count,
                   capacity_ratio |-> capacity_ratio,
                   status |-> region_status(capacity_ratio)]],
        gaps_df |-> RegionCapacityGaps(regions_gdf, period_customers)]

\* the query windows and event days of the capacity runs: windows of one day
\* up to more than a week
LastDay == 9
WindowStarts == {1, 2}
EventDays == {1, 2, LastDay - 2, LastDay - 1, LastDay}
\* the centres of the cells 1 and 3 and of a cell beyond every grid
CapacityLongitudes == {1, 5, 2 * GridW + 1}
CapacityCustomers ==
    [customer_id : CustomerIds, longitude : CapacityLongitudes, assigned_date : EventDays]
CapacityCustomerLists == UNION {[1..n -> CapacityCustomers] : n \in 0..MaxCustomers}

\* the grid of a clinic whose weekly_availability_hours is zero
IdleGrid(id, geom) == [clinic_id |-> id, weekly_hours |-> 0, geometry |-> geom]

\* grid lists the capacity runs use: three grids apart (1, 2 and 4 hours),
\* a grid next to one without hours, two overlapping grids
CapacityGrids ==
    { <<RawGrid(1, Box(0, 1)), RawGrid(2, Box(1, 2)), RawGrid(3, Box(2, 3))>>,
      <<RawGrid(1, Box(0, 2)), IdleGrid(2, Box(2, 4))>>,
      <<RawGrid(1, Box(0, 2)), RawGrid(2, Box(1, 3))>> }

----------------------------------------------------------------------------
(* State machines *)

\* a table not yet produced; the window is 0, which is no day, until one is chosen
NoRows == <<>>

\* a run that reads no grid_config.json
NoConfig == [base_grid_size |-> 0, dynamic_sizes |-> <<>>, dynamic_areas |-> <<>>]

\* no clinic rows read, nothing sampled, no ratio classified
NoClinics == clinics_df = NoRows /\ config = NoConfig /\ area = NoRows
NoSample == n_clinics = 0 /\ n_per_area = NoRows /\ sampled = NoRows /\ returned = NoRows
NoStatus == given_ratio = [num |-> 0, den |-> 1] /\ statuses = NoRows

\* merge distances the grid rows are generated with, in km
RowDistances == {0, 111}

\* Region decomposition: the grid rows are what the grid generation stage
\* wrote for some clinics and some merge distance
InitRegions ==
    /\ pc = "grids"
    /\ variant = "SmilewhiteHeatmap"
    /\ \E raw \in RawGridLists, km \in RowDistances :
          LET merged == merge_nearby_squares(raw, km)
          IN /\ grids = raw
             /\ distance_km = km
             /\ merged_grids = merged
             /\ grids_gdf = GridRows(merged)
    /\ remerged_grids = NoRows
    /\ regions = NoRows
    /\ customers_df = NoRows
    /\ start_date = 0
    /\ end_date = 0
    /\ metrics_gdf = NoRows
    /\ gaps_df = NoRows
    /\ NoClinics
    /\ NoSample
    /\ NoStatus

\* generate_regions.main: regions = find_overlapping_regions(grids_gdf), of
\* either generate_regions.py
GenerateRegions ==
    /\ pc = "grids"
    /\ \E v \in Variants :
          /\ variant' = v
          /\ regions' = FindRegions(v, grids_gdf)
    /\ pc' = "regions"
    /\ UNCHANGED <<grids, distance_km, merged_grids, remerged_grids,
                   grids_gdf, customers_df, start_date, end_date, metrics_gdf, gaps_df>>
    /\ UNCHANGED <<clinicVars, sampleVars, statusVars>>

NextRegions == GenerateRegions

SpecRegions == InitRegions /\ [][NextRegions]_vars

\* Grid merging: the grids of some clinics, merged with some distance, and
\* the merge applied once more to what it returned
InitMerge ==
    /\ pc = "raw"
    /\ variant = "SmilewhiteHeatmap"
    /\ grids \in RawGridLists
    /\ distance_km = 0
    /\ merged_grids = NoRows
    /\ remerged_grids = NoRows
    /\ grids_gdf = NoRows
    /\ regions = NoRows
    /\ customers_df = NoRows
    /\ start_date = 0
    /\ end_date = 0
    /\ metrics_gdf = NoRows
    /\ gaps_df = NoRows
    /\ NoClinics
    /\ NoSample
    /\ NoStatus

\* generate_grids.main: merged_grids = merge_nearby_squares(grids, merge_distance)
MergeGrids ==
    /\ pc = "raw"
    /\ \E km \in MergeDistances :
          /\ distance_km' = km
          /\ merged_grids' = merge_nearby_squares(grids, km)
    /\ pc' = "merged"
    /\ UNCHANGED <<variant, grids, remerged_grids, grids_gdf, regions, customers_df,
                   start_date, end_date, metrics_gdf, gaps_df>>
    /\ UNCHANGED <<clinicVars, sampleVars, statusVars>>

\* merge_nearby_squares run again on its own output with the same distance
Remerge ==
    /\ pc = "merged"
    /\ remerged_grids' = merge_nearby_squares(merged_grids, distance_km)
    /\ pc' = "remerged"
    /\ UNCHANGED <<variant, grids, distance_km, merged_grids, grids_gdf, regions,
                   customers_df, start_date, end_date, metrics_gdf, gaps_df>>
    /\ UNCHANGED <<clinicVars, sampleVars, statusVars>>

NextMerge == MergeGrids \/ Remerge

SpecMerge == InitMerge /\ [][NextMerge]_vars

\* Demand attribution: the regions generated for some grids, then the
\* metrics of some customers in some window
InitAttribution ==
    /\ pc = "regions"
    /\ variant = "SmilewhiteHeatmap"
    /\ grids \in AttributionGrids
    /\ distance_km = 0
    /\ merged_grids = merge_nearby_squares(grids, 0)
    /\ remerged_grids = NoRows
    /\ grids_gdf = GridRows(merged_grids)
    /\ regions = FindRegions(variant, grids_gdf)
    /\ customers_df = NoRows
    /\ start_date = 0
    /\ end_date = 0
    /\ metrics_gdf = NoRows
    /\ gaps_df = NoRows
    /\ NoClinics
    /\ NoSample
    /\ NoStatus

\* visualize_regions.main: regions_gdf = load_data(), then metrics_gdf, gaps_df
\* = calculate_metrics(regions_gdf, customers_df, start_date, end_date)
CalculateMetrics ==
    /\ pc = "regions"
    /\ \E customers \in CustomerLists, start \in Days, end \in Days :
          /\ customers_df' = customers
          /\ start_date' = start
          /\ end_date' = end
          /\ metrics_gdf' = calculate_metrics(load_data(regions), customers, start, end)
          /\ gaps_df' = find_service_gaps(customers, load_data(regions), start, end)
    /\ pc' = "metrics"
    /\ UNCHANGED <<variant, grids, distance_km, merged_grids, remerged_grids,
                   grids_gdf, regions>>
    /\ UNCHANGED <<clinicVars, sampleVars, statusVars>>

NextAttribution == CalculateMetrics

SpecAttribution == InitAttribution /\ [][NextAttribution]_vars

\* Capacity of the regions in a query window, by either attribution
\* function: the regions generated for some grids, then the metrics of some
\* customers in a window of up to LastDay days
InitCapacity ==
    /\ pc = "regions"
    /\ variant = "SmilewhiteHeatmap"
    /\ grids \in CapacityGrids
    /\ distance_km = 0
    /\ merged_grids = merge_nearby_squares(grids, 0)
    /\ remerged_grids = NoRows
    /\ grids_gdf = GridRows(merged_grids)
    /\ regions = FindRegions(variant, grids_gdf)
    /\ customers_df = NoRows
    /\ start_date = 0
    /\ end_date = 0
    /\ metrics_gdf = NoRows
    /\ gaps_df = NoRows
    /\ NoClinics
    /\ NoSample
    /\ NoStatus

\* visualize_regions.main with --start_date and --end_date: regions_gdf =
\* load_data(), then calculate_metrics
CalculateMetricsInWindow ==
    /\ pc = "regions"
    /\ \E customers \in CapacityCustomerLists, start \in WindowStarts, end \in 1..LastDay :
          /\ start <= end
          /\ customers_df' = customers
          /\ start_date' = start
          /\ end_date' = end
          /\ metrics_gdf' = calculate_metrics(load_data(regions), customers, start, end)
          /\ gaps_df' = find_service_gaps(customers, load_data(regions), start, end)
    /\ pc' = "metrics"
    /\ UNCHANGED <<variant, grids, distance_km, merged_grids, remerged_grids,
                   grids_gdf, regions>>
    /\ UNCHANGED <<clinicVars, sampleVars, statusVars>>

\* process_customers: metrics_gdf, gaps_df = calculate_region_capacity(
\* regions_gdf, customers_df, start, end); main passes the first and the last
\* day of the customer data
CalculateRegionCapacity ==
    /\ pc = "regions"
    /\ \E customers \in CapacityCustomerLists, start \in WindowStarts, end \in 1..LastDay :
          /\ start <= end
          /\ customers_df' = customers
          /\ start_date' = start
          /\ end_date' = end
          /\ LET result == calculate_region_capacity(regions, customers, start, end)
             IN /\ metrics_gdf' = result.metrics_gdf
                /\ gaps_df' = result.gaps_df
    /\ pc' = "capacity"
    /\ UNCHANGED <<variant, grids, distance_km, merged_grids, remerged_grids,
                   grids_gdf, regions>>
    /\ UNCHANGED <<clinicVars, sampleVars, statusVars>>

NextCapacity == CalculateMetricsInWindow \/ CalculateRegionCapacity

SpecCapacity == InitCapacity /\ [][NextCapacity]_vars

\* Region decomposition without merging (merge distance 0), of grids in a
\* row one cell longer, so that three grids in a line can each keep a part
\* of their own
LineW == GridW + 1
LineBoxes == {Box(w, e) : w \in 0..(LineW - 1), e \in 1..LineW} \ {{}}
LineGridLists ==
    {[k \in 1..Len(f) |-> RawGrid(k, f[k])] : f \in UNION {[1..m -> LineBoxes] : m \in 1..MaxGrids}}

InitUnmerged ==
    /\ pc = "grids"
    /\ variant = "SmilewhiteHeatmap"
    /\ grids \in LineGridLists
    /\ distance_km = 0
    /\ merged_grids = merge_nearby_squares(grids, 0)
    /\ remerged_grids = NoRows
    /\ grids_gdf = GridRows(merged_grids)
    /\ regions = NoRows
    /\ customers_df = NoRows
    /\ start_date = 0
    /\ end_date = 0
    /\ metrics_gdf = NoRows
    /\ gaps_df = NoRows
    /\ NoClinics
    /\ NoSample
    /\ NoStatus

NextUnmerged == GenerateRegions

SpecUnmerged == InitUnmerged /\ [][NextUnmerged]_vars

----------------------------------------------------------------------------
(* Zone classification and grid generation runs *)

\* which generate_grids.py is run
GridVariants == {"SmilewhiteHeatmap", "DynamicArea"}

\* one row of the clinics file
ClinicRow(id, lon, lat, hours) ==
    [id |-> id, longitude |-> lon, latitude |-> lat, weekly_availability_hours |-> hours]

\* the bounds of a city along one axis and the coordinates next to them
CityEdges(lo, hi) ==
    {lo * KmPerDegree - 1, lo * KmPerDegree, hi * KmPerDegree, hi * KmPerDegree + 1}

\* locations on and around the border of every city, as <<lon, lat>>
DynamicPoints ==
    UNION {CityEdges(CITY_BOUNDARIES[i].min_lon, CITY_BOUNDARIES[i].max_lon)
             \X CityEdges(CITY_BOUNDARIES[i].min_lat, CITY_BOUNDARIES[i].max_lat)
           : i \in 1..Len(CITY_BOUNDARIES)}

\* grid sizes and zone radii of a configuration, in km
GridSizesKm == {KmPerDegree, 2 * KmPerDegree}

ZoneNames == {"A", "B"}
MaxZones == 2

\* dynamic areas on the meridian of the row
Zones ==
    {[name |-> n, center |-> <<0, lat>>, radius_km |-> r] :
        n \in ZoneNames, lat \in {2, 3}, r \in GridSizesKm}

\* grid_config.json as run_pipeline.py writes it: a size for every area name
Configs ==
    {[base_grid_size |-> b, dynamic_sizes |-> ds, dynamic_areas |-> zs] :
        b \in GridSizesKm, ds \in [ZoneNames -> GridSizesKm],
        zs \in UNION {[1..m -> Zones] : m \in 0..MaxZones}}

\* locations in, on the border of and outside the dynamic areas
ZonePoints == {0, 2} \X (0..(GridW + 1))

\* The zone classifier applied to one location
InitZones ==
    /\ pc = "clinics"
    /\ \/ /\ variant = "DynamicArea"
          /\ config = NoConfig
          /\ \E p \in DynamicPoints : clinics_df = <<ClinicRow(1, p[1], p[2], 1)>>
       \/ /\ variant = "SmilewhiteHeatmap"
          /\ config \in Configs
          /\ \E p \in ZonePoints : clinics_df = <<ClinicRow(1, p[1], p[2], 1)>>
    /\ area = NoRows
    /\ grids = NoRows
    /\ distance_km = 0
    /\ merged_grids = NoRows
    /\ remerged_grids = NoRows
    /\ grids_gdf = NoRows
    /\ regions = NoRows
    /\ customers_df = NoRows
    /\ start_date = 0
    /\ end_date = 0
    /\ metrics_gdf = NoRows
    /\ gaps_df = NoRows
    /\ NoSample
    /\ NoStatus

\* what the loop of main (DynamicArea) or of create_grids_batch
\* (SmilewhiteHeatmap) asks the classifier for the first clinic row
ClassifyLocation ==
    /\ pc = "clinics"
    /\ LET row == clinics_df[1]
       IN area' = IF variant = "DynamicArea"
                  THEN [grid_size |-> get_grid_size(row.longitude, row.latitude),
                        area_type |-> get_area_type(row.longitude, row.latitude)]
                  ELSE [grid_size |-> get_grid_size_for_location(row.longitude,
                                                                  row.latitude, config)]
    /\ pc' = "classified"
    /\ UNCHANGED <<variant, grids, distance_km, merged_grids, remerged_grids,
                   grids_gdf, regions, customers_df, start_date, end_date,
                   metrics_gdf, gaps_df, clinics_df, config>>
    /\ UNCHANGED <<sampleVars, statusVars>>

NextZones == ClassifyLocation

SpecZones == InitZones /\ [][NextZones]_vars

\* Grid generation: the clinics file, the grids created from it, the grids
\* merged and the records written
MaxProviders == 2

\* weekly_availability_hours of the clinic rows
ClinicHours == {4, 8}

\* clinic rows of the SmilewhiteHeatmap run, on the meridian of the dynamic
\* areas; the latitude 95 is not on the globe
SmilewhiteLatitudes == {1, 2, 3, 95}

\* clinic rows of the DynamicArea run, on the meridian 0: two in London (km
\* 5700 and 5720 north of the equator), one north of it, one at latitude 95
DynamicLatitudes ==
    {5700 * UnitsPerKm, 5720 * UnitsPerKm, 5760 * UnitsPerKm,
     95 * KmPerDegree * UnitsPerKm}

\* the clinic files of up to MaxProviders rows with the given latitudes,
\* ids in file order
ClinicFiles(latitudes) ==
    {[k \in 1..Len(f) |-> ClinicRow(k, 0, f[k][1], f[k][2])] :
        f \in UNION {[1..m -> latitudes \X ClinicHours] : m \in 1..MaxProviders}}

\* configurations of at most one dynamic area
GridConfigs == {cfg \in Configs : Len(cfg.dynamic_areas) <= 1}

\* --merge_distance of the DynamicArea run, in km (default 5)
DynamicMergeDistances == {-5, 0, 5, 20}

InitGrids ==
    /\ pc = "clinics"
    /\ \/ /\ variant = "DynamicArea"
          /\ config = NoConfig
          /\ clinics_df \in ClinicFiles(DynamicLatitudes)
       \/ /\ variant = "SmilewhiteHeatmap"
          /\ config \in GridConfigs
          /\ clinics_df \in ClinicFiles(SmilewhiteLatitudes)
    /\ area = NoRows
    /\ grids = NoRows
    /\ distance_km = 0
    /\ merged_grids = NoRows
    /\ remerged_grids = NoRows
    /\ grids_gdf = NoRows
    /\ regions = NoRows
    /\ customers_df = NoRows
    /\ start_date = 0
    /\ end_date = 0
    /\ metrics_gdf = NoRows
    /\ gaps_df = NoRows
    /\ NoSample
    /\ NoStatus

\* generate_grids.main: one grid per clinic row
CreateGrids ==
    /\ pc = "clinics"
    /\ grids' = IF variant = "DynamicArea"
                THEN DynamicGrids(clinics_df)
                ELSE create_grids_batch(clinics_df, config)
    /\ pc' = "created"
    /\ UNCHANGED <<variant, distance_km, merged_grids, remerged_grids,
                   grids_gdf, regions, customers_df, start_date, end_date,
                   metrics_gdf, gaps_df>>
    /\ UNCHANGED <<clinicVars, sampleVars, statusVars>>

\* generate_grids.main: merged_grids = merge_nearby_squares(grids, distance)
MergeCreated ==
    /\ pc = "created"
    /\ \/ /\ variant = "DynamicArea"
          /\ \E km \in DynamicMergeDistances :
                /\ distance_km' = km
                /\ merged_grids' = dynamic_merge_nearby_squares(grids, km)
       \/ /\ variant = "SmilewhiteHeatmap"
          /\ \E km \in MergeDistances :
                /\ distance_km' = km
                /\ merged_grids' = merge_nearby_squares(grids, km)
    /\ pc' = "merged"
    /\ UNCHANGED <<variant, grids, remerged_grids, grids_gdf, regions, customers_df,
                   start_date, end_date, metrics_gdf, gaps_df>>
    /\ UNCHANGED <<clinicVars, sampleVars, statusVars>>

\* generate_grids.main: the record loop and the two files written; the
\* DynamicArea loop stops with a KeyError before anything is written
WriteRecords ==
    /\ pc = "merged"
    /\ IF variant = "DynamicArea"
       THEN IF RaisesKeyError(merged_grids)
            THEN pc' = "KeyError" /\ UNCHANGED grids_gdf
            ELSE pc' = "written" /\ grids_gdf' = DynamicGridRows(merged_grids)
       ELSE pc' = "written" /\ grids_gdf' = GridRows(merged_grids)
    /\ UNCHANGED <<variant, grids, distance_km, merged_grids, remerged_grids,
                   regions, customers_df, start_date, end_date, metrics_gdf, gaps_df>>
    /\ UNCHANGED <<clinicVars, sampleVars, statusVars>>

NextGrids == CreateGrids \/ MergeCreated \/ WriteRecords

SpecGrids == InitGrids /\ [][NextGrids]_vars

\* The two status classifiers applied to one capacity ratio
MaxHundredths == 120

\* the ratios 0.00, 0.01, ... and infinity (period_hours = 0 in
\* calculate_region_capacity, total_availability_hours = 0 with customers in
\* calculate_metrics)
Ratios == {[num |-> n, den |-> 100] : n \in 0..MaxHundredths} \cup {[num |-> 1, den |-> 0]}

InitStatus ==
    /\ pc = "ratio"
    /\ variant = "SmilewhiteHeatmap"
    /\ given_ratio \in Ratios
    /\ statuses = NoRows
    /\ grids = NoRows
    /\ distance_km = 0
    /\ merged_grids = NoRows
    /\ remerged_grids = NoRows
    /\ grids_gdf = NoRows
    /\ regions = NoRows
    /\ customers_df = NoRows
    /\ start_date = 0
    /\ end_date = 0
    /\ metrics_gdf = NoRows
    /\ gaps_df = NoRows
    /\ NoClinics
    /\ NoSample

\* the "determine status" step of calculate_metrics and the one of
\* calculate_region_capacity, for the same capacity ratio
ClassifyRatio ==
    /\ pc = "ratio"
    /\ statuses' = [calculate_metrics |-> get_status(given_ratio),
                    calculate_region_capacity |-> region_status(given_ratio)]
    /\ pc' = "status"
    /\ UNCHANGED <<variant, grids, distance_km, merged_grids, remerged_grids,
                   grids_gdf, regions, customers_df, start_date, end_date,
                   metrics_gdf, gaps_df, given_ratio>>
    /\ UNCHANGED <<clinicVars, sampleVars>>

NextStatus == ClassifyRatio

SpecStatus == InitStatus /\ [][NextStatus]_vars

\* Pairwise splitting: the grids of some clinics, then the regions of the
\* first two of them or of all of them
InitPairs ==
    /\ pc = "grids"
    /\ variant = "root"
    /\ grids \in RawGridLists
    /\ distance_km = 0
    /\ merged_grids = NoRows
    /\ remerged_grids = NoRows
    /\ grids_gdf = NoRows
    /\ regions = NoRows
    /\ customers_df = NoRows
    /\ start_date = 0
    /\ end_date = 0
    /\ metrics_gdf = NoRows
    /\ gaps_df = NoRows
    /\ NoClinics
    /\ NoSample
    /\ NoStatus

\* find_regions_for_grid_pair called with two grids and their metadata
FindRegionsForGridPair ==
    /\ pc = "grids"
    /\ Len(grids) = 2
    /\ regions' = find_regions_for_grid_pair(
                      grids[1].geometry, grids[2].geometry,
                      [clinic_id |-> grids[1].clinic_id, weekly_hours |-> grids[1].weekly_hours],
                      [clinic_id |-> grids[2].clinic_id, weekly_hours |-> grids[2].weekly_hours])
    /\ pc' = "pair"
    /\ UNCHANGED <<variant, grids, distance_km, merged_grids, remerged_grids,
                   grids_gdf, customers_df, start_date, end_date, metrics_gdf, gaps_df>>
    /\ UNCHANGED <<clinicVars, sampleVars, statusVars>>

\* generate_regions.main: regions = find_all_regions(grids_with_metadata)
FindAllRegions ==
    /\ pc = "grids"
    /\ regions' = find_all_regions(grids)
    /\ pc' = "all"
    /\ UNCHANGED <<variant, grids, distance_km, merged_grids, remerged_grids,
                   grids_gdf, customers_df, start_date, end_date, metrics_gdf, gaps_df>>
    /\ UNCHANGED <<clinicVars, sampleVars, statusVars>>

NextPairs == FindRegionsForGridPair \/ FindAllRegions

SpecPairs == InitPairs /\ [][NextPairs]_vars

\* Downsampling: a clinics file and a sample size, the quotas per postcode
\* area, the quota adjustment loop, one sample per area, the top-up
MaxClinics == 4

\* postcodes of four areas, as their characters
Postcodes == << <<"A", "B", "1">>, <<"A", "B", "2">>, <<"C", "D", "1">>,
                <<"E", "F", "1">>, <<"G", "H", "1">> >>

\* the clinics files of up to MaxClinics rows, ids in file order, the rows
\* in the order of their postcodes
DownsampleFiles ==
    {[k \in 1..Len(f) |-> [id |-> k, active |-> f[k][1], postcode |-> Postcodes[f[k][2]]]] :
        f \in {g \in UNION {[1..m -> {0, 1} \X (1..Len(Postcodes))] : m \in 1..MaxClinics} :
                  \A k \in 1..(Len(g) - 1) : g[k][2] <= g[k + 1][2]}}

\* downsample_clinics(input_file, n_clinics) is called with a sample size
\* between 1 and the number of active clinics
InitDownsample ==
    /\ pc = "file"
    /\ variant = "Region Generation"
    /\ clinics_df \in DownsampleFiles
    /\ n_clinics \in 1..MaxClinics
    /\ n_clinics <= Cardinality(active_clinics(clinics_df))
    /\ n_per_area = NoRows
    /\ sampled = NoRows
    /\ returned = NoRows
    /\ config = NoConfig
    /\ area = NoRows
    /\ grids = NoRows
    /\ distance_km = 0
    /\ merged_grids = NoRows
    /\ remerged_grids = NoRows
    /\ grids_gdf = NoRows
    /\ regions = NoRows
    /\ customers_df = NoRows
    /\ start_date = 0
    /\ end_date = 0
    /\ metrics_gdf = NoRows
    /\ gaps_df = NoRows
    /\ NoStatus

\* the filter, the area counts and the rounded quotas
RoundQuotas ==
    /\ pc = "file"
    /\ \E order \in area_counts(clinics_df) :
          LET count(k) == Cardinality(area_clinics(clinics_df, order[k]))
              total == Cardinality(active_clinics(clinics_df))
          IN \E ups \in SUBSET {k \in 1..Len(order) : Halfway(count(k), total, n_clinics)} :
                n_per_area' =
                    [k \in 1..Len(order) |->
                        [area |-> order[k],
                         n |-> Rounded(count(k), total, n_clinics, k \in ups)]]
    /\ pc' = "quotas"
    /\ UNCHANGED <<variant, grids, distance_km, merged_grids, remerged_grids,
                   grids_gdf, regions, customers_df, start_date, end_date,
                   metrics_gdf, gaps_df, n_clinics, sampled, returned>>
    /\ UNCHANGED <<clinicVars, statusVars>>

\* one pass of "while n_per_area.sum() != n_clinics"
AdjustQuota ==
    /\ pc = "quotas"
    /\ QuotaSum(n_per_area) # n_clinics
    /\ LET largest_area == idxmax(n_per_area)
       IN n_per_area' =
              IF QuotaSum(n_per_area) > n_clinics
              THEN [n_per_area EXCEPT ![largest_area].n = @ - 1]
              ELSE [n_per_area EXCEPT ![largest_area].n = @ + 1]
    /\ UNCHANGED <<pc, variant, grids, distance_km, merged_grids, remerged_grids,
                   grids_gdf, regions, customers_df, start_date, end_date,
                   metrics_gdf, gaps_df, n_clinics, sampled, returned>>
    /\ UNCHANGED <<clinicVars, statusVars>>

\* one pass of "for area, n in n_per_area.items()": the sample of the next
\* area; sample() raises ValueError for a negative size
SampleArea ==
    /\ pc = "quotas"
    /\ QuotaSum(n_per_area) = n_clinics
    /\ Len(sampled) < Len(n_per_area)
    /\ LET item == n_per_area[Len(sampled) + 1]
           rows == area_clinics(clinics_df, item.area)
           samples == Samples(rows, Min(item.n, Cardinality(rows)))
       IN IF samples = {}
          THEN pc' = "ValueError" /\ UNCHANGED sampled
          ELSE /\ \E T \in samples : sampled' = Append(sampled, SortedSeqOfSet(T))
               /\ UNCHANGED pc
    /\ UNCHANGED <<variant, grids, distance_km, merged_grids, remerged_grids,
                   grids_gdf, regions, customers_df, start_date, end_date,
                   metrics_gdf, gaps_df, n_clinics, n_per_area, returned>>
    /\ UNCHANGED <<clinicVars, statusVars>>

\* pd.concat(sampled_clinics)
RECURSIVE Concat(_)
Concat(frames) == IF frames = <<>> THEN <<>> ELSE Head(frames) \o Concat(Tail(frames))

\* result = pd.concat(sampled_clinics), the top-up from the remaining active
\* clinics, return result; concat raises ValueError for an empty list,
\* sample() for more rows than remain
ConcatAndTopUp ==
    /\ pc = "quotas"
    /\ QuotaSum(n_per_area) = n_clinics
    /\ Len(sampled) = Len(n_per_area)
    /\ LET result == Concat(sampled)
           remaining == active_clinics(clinics_df) \ Range(result)
           additionals == Samples(remaining, Additional(n_clinics, Len(result)))
       IN IF sampled = <<>> \/ (Len(result) < n_clinics /\ additionals = {})
          THEN pc' = "ValueError" /\ UNCHANGED returned
          ELSE /\ pc' = "done"
               /\ IF Len(result) < n_clinics
                  THEN \E T \in additionals : returned' = result \o SortedSeqOfSet(T)
                  ELSE returned' = result
    /\ UNCHANGED <<variant, grids, distance_km, merged_grids, remerged_grids,
                   grids_gdf, regions, customers_df, start_date, end_date,
                   metrics_gdf, gaps_df, n_clinics, n_per_area, sampled>>
    /\ UNCHANGED <<clinicVars, statusVars>>

NextDownsample == RoundQuotas \/ AdjustQuota \/ SampleArea \/ ConcatAndTopUp

SpecDownsample == InitDownsample /\ [][NextDownsample]_vars

\* the run of downsample_clinics goes on while it has a step to take
FairDownsample == SpecDownsample /\ WF_vars(NextDownsample)

----------------------------------------------------------------------------
(* Properties of the region decomposition *)

RegionIndices == 1..Len(regions)
GridIndices == 1..Len(grids_gdf)

\* the clinic ids a grid row stands for, as the variant run reads them
GridIds(v, row) == IF v = "root" THEN {row.clinic_id} ELSE Range(row.all_clinic_ids)

\* the grids that cover some part / the whole of a geometry
CoveringAny(geom) == {k \in GridIndices : Intersection(grids_gdf[k].geometry, geom) # {}}
CoveringAll(geom) == {k \in GridIndices : geom \subseteq grids_gdf[k].geometry}

\* C1: any two distinct emitted regions have a zero-area intersection
C1_RegionsPairwiseDisjoint ==
    pc = "regions" =>
        \A a \in RegionIndices, b \in RegionIndices :
            a # b => Area(Intersection(regions[a].geometry, regions[b].geometry)) = 0

\* C2: the union of the emitted region geometries equals the union of the
\* input grid geometries
C2_UnionPreserved ==
    pc = "regions" =>
        UnaryUnion({regions[a].geometry : a \in RegionIndices})
            = UnaryUnion({grids_gdf[k].geometry : k \in GridIndices})

\* some grid was skipped because earlier grids cover it entirely, some grids
\* overlap, and regions were emitted
C2_Witness ==
    /\ pc = "regions"
    /\ Len(regions) >= 2
    /\ \E k \in GridIndices :
          grids_gdf[k].geometry \subseteq UnaryUnion({grids_gdf[j].geometry : j \in 1..(k - 1)})
    /\ \E a \in RegionIndices : Len(regions[a].clinic_ids) >= 2

\* C3: the clinic-id set of every region is exactly the ids of the grids
\* covering it: every grid covering a part of it is listed, every listed
\* grid covers all of it
C3_ExactCoverageSet ==
    pc = "regions" =>
        \A a \in RegionIndices :
            /\ Range(regions[a].clinic_ids)
                 = UNION {GridIds(variant, grids_gdf[k]) : k \in CoveringAny(regions[a].geometry)}
            /\ Range(regions[a].clinic_ids)
                 = UNION {GridIds(variant, grids_gdf[k]) : k \in CoveringAll(regions[a].geometry)}

\* C4: total_availability_hours of every region is the sum of weekly_hours
\* of exactly the grids whose geometry contains the region
C4_HoursOfContainingGrids ==
    pc = "regions" =>
        \A a \in RegionIndices :
            regions[a].total_availability_hours
                = SumSet({grids_gdf[k].weekly_hours : k \in CoveringAll(regions[a].geometry)})

\* the emitted regions without their numbering
RegionSet(rs) ==
    {<<rs[a].geometry, Range(rs[a].clinic_ids), rs[a].total_availability_hours>> :
        a \in 1..Len(rs)}

Perms(n) == {f \in [1..n -> 1..n] : \A x, y \in 1..n : x # y => f[x] # f[y]}

\* C5: every permutation of the input grids gives the same set of regions
C5_OrderIndependent ==
    pc = "regions" =>
        \A f \in Perms(Len(grids_gdf)) :
            RegionSet(FindRegions(variant, [k \in GridIndices |-> grids_gdf[f[k]]]))
                = RegionSet(regions)

----------------------------------------------------------------------------
(* Properties of the grid merging *)

InputIndices == 1..Len(grids)
MergedIndices == 1..Len(merged_grids)

\* the input grids whose clinic id a merged grid lists
Members(m) ==
    {i \in InputIndices : grids[i].clinic_id \in Range(merged_grids[m].all_clinic_ids)}

\* the proximity graph: two input grids are near when their centroids are
\* within the threshold
Near(i, j) == WithinEps(grids[i].geometry, grids[j].geometry, distance_km)

\* the input grids a chain of near grids starting in S reaches
RECURSIVE ChainedFrom(_)
ChainedFrom(S) ==
    LET T == S \cup {j \in InputIndices : \E i \in S : Near(i, j)}
    IN IF T = S THEN S ELSE ChainedFrom(T)

\* the input grids merged into the same grid as i
MergedWith(i) == UNION {Members(m) : m \in {k \in MergedIndices : i \in Members(k)}}

\* merge_nearby_squares has returned (Remerge leaves its output as it is)
Merged == pc = "merged"

\* C6: with a positive threshold two input grids end in the same merged grid
\* exactly when a chain of near grids joins them
C6_SingleLinkComponents ==
    (Merged /\ distance_km > 0) =>
        \A i \in InputIndices : MergedWith(i) = ChainedFrom({i})

\* a chain whose two end grids are farther apart than the threshold is
\* merged into one grid
C6_Witness ==
    /\ pc = "merged"
    /\ distance_km > 0
    /\ \E i \in InputIndices : \E j \in MergedWith(i) : ~Near(i, j)

\* C7: with a positive threshold every input grid is a member of exactly one
\* merged grid; hours, clinic ids and geometry of a merged grid are the sum,
\* the ids and the union of its members; total hours and ids are conserved
C7_MergeConserves ==
    (Merged /\ distance_km > 0) =>
        /\ \A i \in InputIndices : Cardinality({m \in MergedIndices : i \in Members(m)}) = 1
        /\ \A m \in MergedIndices :
              /\ Members(m) # {}
              /\ Len(merged_grids[m].all_clinic_ids) = Cardinality(Members(m))
              /\ Range(merged_grids[m].all_clinic_ids) = {grids[i].clinic_id : i \in Members(m)}
              /\ merged_grids[m].weekly_hours = SumSet({grids[i].weekly_hours : i \in Members(m)})
              /\ merged_grids[m].geometry = UnaryUnion({grids[i].geometry : i \in Members(m)})
        /\ SumSeq([m \in MergedIndices |-> merged_grids[m].weekly_hours])
             = SumSeq([i \in InputIndices |-> grids[i].weekly_hours])
        /\ UNION {Range(merged_grids[m].all_clinic_ids) : m \in MergedIndices}
             = {grids[i].clinic_id : i \in InputIndices}

\* a merge that joined several grids into one and left another grid alone
C7_Witness ==
    /\ pc = "merged"
    /\ distance_km > 0
    /\ Len(merged_grids) >= 2
    /\ \E m \in MergedIndices : Cardinality(Members(m)) >= 2

\* C8: a zero or negative threshold returns the input grids unchanged
C8_NonPositiveIsNoOp ==
    (Merged /\ distance_km <= 0) => merged_grids = grids

\* a merge with threshold zero of grids of which two have the same centroid
C8_Witness ==
    /\ pc = "merged"
    /\ distance_km = 0
    /\ \E i \in InputIndices, j \in InputIndices :
          i # j /\ WithinEps(grids[i].geometry, grids[j].geometry, 0)

\* C9: merging the output again with the same positive threshold changes
\* nothing: same number of grids, each with the same all_clinic_ids set, the
\* same weekly_hours and the same geometry
C9_MergeIdempotent ==
    (pc = "remerged" /\ distance_km > 0) =>
        /\ Len(remerged_grids) = Len(merged_grids)
        /\ \A m \in 1..Len(remerged_grids) :
              /\ m \in MergedIndices
              /\ Range(remerged_grids[m].all_clinic_ids) = Range(merged_grids[m].all_clinic_ids)
              /\ remerged_grids[m].weekly_hours = merged_grids[m].weekly_hours
              /\ remerged_grids[m].geometry = merged_grids[m].geometry

----------------------------------------------------------------------------
(* Properties of the demand attribution *)

\* the events that survive the window filter and the de-duplication
Surviving == PeriodCustomers(customers_df, start_date, end_date)

\* the regions in whose customer_count an event is counted
CountedIn(c) ==
    {a \in 1..Len(metrics_gdf) : c \in Range(RegionCustomers(metrics_gdf[a], Surviving))}

\* C10: every in-window event is counted in the customer_count of at most
\* one region
C10_CountedInAtMostOneRegion ==
    pc = "metrics" =>
        /\ \A c \in Range(Surviving) : Cardinality(CountedIn(c)) <= 1
        /\ SumSeq([a \in 1..Len(metrics_gdf) |-> metrics_gdf[a].customer_count])
             <= Len(Surviving)

----------------------------------------------------------------------------
(* Properties of the attribution in a query window *)

\* either attribution function has returned
Attributed == pc \in {"metrics", "capacity"}

MetricIndices == 1..Len(metrics_gdf)
CustomerIndices == 1..Len(customers_df)

\* the event lies in the window the caller passed, both ends included
InWindow(k) ==
    start_date <= customers_df[k].assigned_date /\ customers_df[k].assigned_date <= end_date

\* the location lies in a catchment or on its border
InCatchment(geom, x) ==
    IF x % 2 = 1 THEN ((x + 1) \div 2) \in geom
    ELSE (x \div 2) \in geom \/ ((x \div 2) + 1) \in geom

\* the event lies outside every catchment
OutsideCoverage(k) ==
    \A g \in GridIndices : ~InCatchment(grids_gdf[g].geometry, customers_df[k].longitude)

\* the gap rows that report event k (a gap row tells where and when)
GapRowsOf(k) ==
    {r \in 1..Len(gaps_df) : /\ gaps_df[r].longitude = customers_df[k].longitude
                             /\ gaps_df[r].assigned_date = customers_df[k].assigned_date}

\* the events of the window located inside region row a
EventsInside(a) ==
    {k \in CustomerIndices : InWindow(k) /\ Contains(metrics_gdf[a].geometry,
                                                     customers_df[k].longitude)}

\* event k is the first event of its customer_id inside the window
FirstInWindow(k) ==
    /\ InWindow(k)
    /\ \A j \in 1..(k - 1) :
          InWindow(j) => customers_df[j].customer_id # customers_df[k].customer_id

TotalCounted == SumSeq([a \in MetricIndices |-> metrics_gdf[a].customer_count])

\* C11: an event of the window located outside every catchment is a row of
\* the gap output, and no region counts it: a region counts no more than the
\* events of the window located inside a catchment
C11_OutsideEventIsGap ==
    Attributed =>
        /\ \A k \in CustomerIndices :
              (InWindow(k) /\ OutsideCoverage(k)) => GapRowsOf(k) # {}
        /\ \A a \in MetricIndices :
              metrics_gdf[a].customer_count
                  <= Cardinality({k \in CustomerIndices : InWindow(k) /\ ~OutsideCoverage(k)})

\* C12: an event contributes to a customer_count or to the gap list exactly
\* when start_date <= assigned_date <= end_date: every gap row and every
\* counted event is an event of the window, and every event of the window is
\* a gap row or (the first of its customer at least) counted by its region
C12_InclusiveWindow ==
    Attributed =>
        /\ \A r \in 1..Len(gaps_df) :
              start_date <= gaps_df[r].assigned_date /\ gaps_df[r].assigned_date <= end_date
        /\ \A a \in MetricIndices :
              /\ metrics_gdf[a].customer_count <= Cardinality(EventsInside(a))
              /\ metrics_gdf[a].customer_count
                    >= Cardinality({k \in EventsInside(a) : FirstInWindow(k)})
        /\ \A k \in CustomerIndices :
              (InWindow(k) /\ \A a \in MetricIndices : k \notin EventsInside(a))
                  => GapRowsOf(k) # {}

\* C13: a customer_id that appears several times in the window adds at most
\* one to the customer counts plus the gap rows, and the event counted is its
\* first one in input order
C13_EntityCountedOnce ==
    Attributed =>
        /\ TotalCounted + Len(gaps_df)
              <= Cardinality({customers_df[k].customer_id : k \in {j \in CustomerIndices : InWindow(j)}})
        /\ \A a \in MetricIndices :
              metrics_gdf[a].customer_count
                  = Cardinality({k \in EventsInside(a) : FirstInWindow(k)})

\* number of days of the query window
DaysInWindow == end_date - start_date + 1

\* C14: capacity_ratio = customer_count / (total_availability_hours *
\* DaysInWindow / 7); infinite when the hours are zero and customers counted
C14_RatioScaledByWindow ==
    Attributed =>
        \A a \in MetricIndices :
            LET row == metrics_gdf[a]
            IN IF row.total_availability_hours > 0
               THEN /\ row.capacity_ratio.den # 0
                    /\ row.capacity_ratio.num * row.total_availability_hours * DaysInWindow
                         = row.customer_count * 7 * row.capacity_ratio.den
               ELSE row.customer_count > 0 => row.capacity_ratio.den = 0

\* the status the classifier that was run gives to a ratio num / den
StatusOf(num, den) ==
    IF pc = "capacity" THEN region_status([num |-> num, den |-> den])
    ELSE get_status([num |-> num, den |-> den])

RatioIs(r, a, b) == r.den # 0 /\ r.num * b = a * r.den

\* C15: a ratio of exactly 0.25, 0.5, 1.0 has the status of the ratios just
\* below it (of the bucket it closes), for both classifiers
C15_BoundaryInLowerBucket ==
    Attributed =>
        \A a \in MetricIndices :
            /\ RatioIs(metrics_gdf[a].capacity_ratio, 1, 4)
                  => metrics_gdf[a].status = StatusOf(1, 8)
            /\ RatioIs(metrics_gdf[a].capacity_ratio, 1, 2)
                  => metrics_gdf[a].status = StatusOf(3, 8)
            /\ RatioIs(metrics_gdf[a].capacity_ratio, 1, 1)
                  => metrics_gdf[a].status = StatusOf(19, 20)

\* C16: with no event inside the window every region has customer_count 0
\* and the status "Empty", also a region without hours
C16_NoEventsAllEmpty ==
    (Attributed /\ \A k \in CustomerIndices : ~InWindow(k)) =>
        \A a \in MetricIndices :
            metrics_gdf[a].customer_count = 0 /\ metrics_gdf[a].status = "Empty"

\* C17: a window of more than 7 days is rejected: no region metrics and no
\* gap list are returned
C17_LongWindowRejected ==
    (Attributed /\ DaysInWindow > 7) =>
        metrics_gdf = NoRows /\ gaps_df = NoRows

----------------------------------------------------------------------------
(* Scenarios of the region decomposition without merging *)

Unmerged == pc = "regions" /\ distance_km = 0

\* two grid rows share an area
Overlap(i, j) == Area(Intersection(grids_gdf[i].geometry, grids_gdf[j].geometry)) > 0

\* region a is grid row k alone: its geometry, its clinic id, its hours
RegionIsGrid(a, k) ==
    /\ regions[a].geometry = grids_gdf[k].geometry
    /\ Range(regions[a].clinic_ids) = {grids_gdf[k].clinic_id}
    /\ regions[a].total_availability_hours = grids_gdf[k].weekly_hours

\* C18: pairwise non-overlapping grids, no merging: exactly one region per
\* grid, with the geometry, the single clinic id and the weekly hours of it
C18_OneRegionPerDisjointGrid ==
    (Unmerged /\ \A i \in GridIndices, j \in GridIndices : i # j => ~Overlap(i, j)) =>
        /\ Len(regions) = Len(grids_gdf)
        /\ \A k \in GridIndices :
              Cardinality({a \in RegionIndices : RegionIsGrid(a, k)}) = 1
        /\ \A a \in RegionIndices : \E k \in GridIndices : RegionIsGrid(a, k)

\* three grids that share no area, two of them side by side
C18_Witness ==
    /\ Unmerged
    /\ Len(grids_gdf) = MaxGrids
    /\ Len(regions) = MaxGrids
    /\ \A i \in GridIndices, j \in GridIndices : i # j => ~Overlap(i, j)
    /\ \E i \in GridIndices, j \in GridIndices :
          i # j /\ Intersects(grids_gdf[i].geometry, grids_gdf[j].geometry)

\* C19: two grids with the same geometry give exactly one region: that
\* geometry, both clinic ids, the sum of the two weekly hours
C19_IdenticalGridsOneRegion ==
    (Unmerged /\ Len(grids_gdf) = 2 /\ grids_gdf[1].geometry = grids_gdf[2].geometry) =>
        /\ Len(regions) = 1
        /\ regions[1].geometry = grids_gdf[1].geometry
        /\ Range(regions[1].clinic_ids) = {grids_gdf[1].clinic_id, grids_gdf[2].clinic_id}
        /\ regions[1].total_availability_hours
             = grids_gdf[1].weekly_hours + grids_gdf[2].weekly_hours

\* two grids of more than one cell with the same geometry were decomposed
C19_Witness ==
    /\ Unmerged
    /\ Len(grids_gdf) = 2
    /\ grids_gdf[1].geometry = grids_gdf[2].geometry
    /\ Area(grids_gdf[1].geometry) >= 2
    /\ Len(regions) >= 1

\* the three grids are a chain with the middle grid m: both other grids
\* overlap m and do not overlap each other
ChainAround(m) ==
    /\ Len(grids_gdf) = 3
    /\ m \in GridIndices
    /\ \A i \in GridIndices \ {m} : Overlap(i, m)
    /\ \A i \in GridIndices \ {m}, j \in GridIndices \ {m} : i # j => ~Overlap(i, j)

\* the regions whose clinic ids are those of the grid rows in K
RegionsOf(K) ==
    {a \in RegionIndices : Range(regions[a].clinic_ids) = {grids_gdf[k].clinic_id : k \in K}}

\* the 5 regions of a chain: one per grid, one per overlapping pair, and
\* together a partition of the union of the grids
FiveRegions(m) ==
    /\ Len(regions) = 5
    /\ \A k \in GridIndices : Cardinality(RegionsOf({k})) = 1
    /\ \A k \in GridIndices \ {m} : Cardinality(RegionsOf({k, m})) = 1
    /\ \A a \in RegionIndices, b \in RegionIndices :
          a # b => Area(Intersection(regions[a].geometry, regions[b].geometry)) = 0
    /\ UnaryUnion({regions[a].geometry : a \in RegionIndices})
         = UnaryUnion({grids_gdf[k].geometry : k \in GridIndices})

\* C20: three grids in a line, each overlapping only its neighbour, no
\* merging: exactly 5 regions, three of one clinic and two of the two
\* overlapping pairs, a partition of the union
C20_ChainGivesFiveRegions ==
    Unmerged => \A m \in GridIndices : ChainAround(m) => FiveRegions(m)

\* every grid has a part that no other grid covers
EachKeepsOwnPart ==
    \A k \in GridIndices :
        Difference(grids_gdf[k].geometry,
                   UnaryUnion({grids_gdf[j].geometry : j \in GridIndices \ {k}})) # {}

\* C20 as amended: the chain gives the 5 regions when every grid has a part
\* of its own (the end grids beyond the middle one, the middle one between
\* its neighbours)
C20_ProperChainGivesFiveRegions ==
    Unmerged => \A m \in GridIndices :
                    (ChainAround(m) /\ EachKeepsOwnPart) => FiveRegions(m)

\* a chain whose grids all keep a part of their own, the middle grid not
\* being the second of the list
C20_Witness ==
    /\ Unmerged
    /\ EachKeepsOwnPart
    /\ \E m \in GridIndices : m # 2 /\ ChainAround(m) /\ FiveRegions(m)

----------------------------------------------------------------------------
(* Minimality of the region decomposition *)

\* the clinic ids covering cell c, and the coverage sets that occur in the
\* arrangement of the grids
CoverageSetAt(c) ==
    UNION {GridIds(variant, grids_gdf[k]) : k \in {j \in GridIndices : c \in grids_gdf[j].geometry}}
CoverageSets ==
    {CoverageSetAt(c) : c \in UnaryUnion({grids_gdf[k].geometry : k \in GridIndices})}

\* C24: one region per coverage set that occurs: as many regions as there
\* are distinct coverage sets, no two regions with the same clinic-id set
C24_OneRegionPerCoverageSet ==
    pc = "regions" =>
        /\ Len(regions) = Cardinality(CoverageSets)
        /\ \A a, b \in RegionIndices :
               a # b => Range(regions[a].clinic_ids) # Range(regions[b].clinic_ids)

----------------------------------------------------------------------------
(* Conservation of events, agreement of the status classifiers, events
   counted against the prorated days *)

\* the regions given to calculate_metrics share no area
RegionsDisjoint ==
    \A a, b \in MetricIndices :
        a # b => Area(Intersection(metrics_gdf[a].geometry, metrics_gdf[b].geometry)) = 0

\* the customer_ids with an event inside the window
CustomersInWindow == {customers_df[k].customer_id : k \in {j \in CustomerIndices : InWindow(j)}}

\* C25: with pairwise disjoint regions, the customer counts of
\* calculate_metrics and the rows of its gap table add up to the number of
\* distinct customer_ids with an event inside the window
C25_EventsConserved ==
    (pc = "metrics" /\ RegionsDisjoint) =>
        TotalCounted + Len(gaps_df) = Cardinality(CustomersInWindow)

\* position of a status of calculate_metrics in its ordered list of statuses
MetricsBucket(status) ==
    CASE status = "Empty" -> 1
      [] status = "Partially Empty" -> 2
      [] status = "moderately Full" -> 3
      [] status = "Partially Full" -> 4
      [] status = "Nearly Full" -> 5
      [] status = "At Capacity" -> 6
      [] status = "Overcrowded" -> 7

\* position of a status of calculate_region_capacity in its ordered list of
\* statuses; "No Availability" is none of the seven
CapacityBucket(status) ==
    CASE status = "Empty" -> 1
      [] status = "Low Utilization" -> 2
      [] status = "Partially Full" -> 3
      [] status = "Moderately Full" -> 4
      [] status = "Near Capacity" -> 5
      [] status = "At Capacity" -> 6
      [] status = "Overcrowded" -> 7
      [] status = "No Availability" -> 0

\* C26: for every capacity ratio, infinity included, the status of
\* calculate_region_capacity and the status of calculate_metrics have the
\* same position among the seven buckets
C26_ClassifiersAgree ==
    pc = "status" =>
        CapacityBucket(statuses.calculate_region_capacity)
            = MetricsBucket(statuses.calculate_metrics)

\* the days over which calculate_region_capacity prorates the weekly hours
ProratedDays == IF DaysInWindow < 7 THEN DaysInWindow ELSE 7

\* the events located inside region row a on one of the ProratedDays days
\* from start_date on
EventsOfProratedDays(a) ==
    {k \in CustomerIndices :
        /\ Contains(metrics_gdf[a].geometry, customers_df[k].longitude)
        /\ start_date <= customers_df[k].assigned_date
        /\ customers_df[k].assigned_date <= start_date + ProratedDays - 1}

\* C27: calculate_region_capacity counts for a region no event outside the
\* days_in_period (at most 7) days from start_date on; no event of an
\* eighth day is counted against 7 days of hours
C27_CountedWithinProratedDays ==
    pc = "capacity" =>
        \A a \in MetricIndices :
            metrics_gdf[a].customer_count <= Cardinality(EventsOfProratedDays(a))

----------------------------------------------------------------------------
(* Properties of the zone classifier *)

\* the location that was classified
Classified == pc = "classified"
Location == clinics_df[1]

\* the cities whose closed box holds the location (bounds in 1/10000 degree,
\* the location in units)
CitiesAround ==
    {i \in 1..Len(CITY_BOUNDARIES) :
        LET b == CITY_BOUNDARIES[i]
        IN /\ b.min_lon * KmPerDegree <= Location.longitude
           /\ Location.longitude <= b.max_lon * KmPerDegree
           /\ b.min_lat * KmPerDegree <= Location.latitude
           /\ Location.latitude <= b.max_lat * KmPerDegree}

\* the dynamic areas whose closed square holds the location: the distance
\* to the centre is at most radius_km / 111.0 degrees along the meridian and
\* radius_km / (111.0 * cos(54 deg)) degrees across it
ZonesAround ==
    {i \in 1..Len(config.dynamic_areas) :
        LET z == config.dynamic_areas[i]
        IN /\ Abs(Location.latitude - z.center[2]) * KmPerDegree <= z.radius_km
           /\ Abs(Location.longitude - z.center[1]) * KmPerDegree * CosLat54
                 <= z.radius_km * 10000}

First(S) == CHOOSE i \in S : \A j \in S : i <= j

\* C21: a location gets the size of the first zone, in configuration order,
\* whose closed bounds hold it, and the fallback size ("rural" in
\* DynamicArea, base_grid_size in SmilewhiteHeatmap) when no zone holds it;
\* the area type returned with a size is the type of that same zone
C21_FirstZoneDecides ==
    Classified =>
        IF variant = "DynamicArea"
        THEN IF CitiesAround = {}
             THEN area = [grid_size |-> GRID_SIZES.rural, area_type |-> "rural"]
             ELSE LET type == CITY_TYPES[CITY_BOUNDARIES[First(CitiesAround)].city]
                  IN area = [grid_size |-> GRID_SIZES[type], area_type |-> type]
        ELSE IF ZonesAround = {}
             THEN area.grid_size = config.base_grid_size
             ELSE area.grid_size
                     = config.dynamic_sizes[config.dynamic_areas[First(ZonesAround)].name]

\* a location on the border of the first of two areas with different sizes
\* that both hold it, and a location on the corner of a city
C21_Witness ==
    /\ Classified
    /\ \/ /\ variant = "SmilewhiteHeatmap"
          /\ Cardinality(ZonesAround) = 2
          /\ LET z == config.dynamic_areas[1]
             IN /\ Abs(Location.latitude - z.center[2]) * KmPerDegree = z.radius_km
                /\ config.dynamic_sizes[z.name]
                      # config.dynamic_sizes[config.dynamic_areas[2].name]
                /\ area.grid_size = config.dynamic_sizes[z.name]
                /\ area.grid_size # config.base_grid_size
       \/ /\ variant = "DynamicArea"
          /\ CitiesAround # {}
          /\ LET b == CITY_BOUNDARIES[First(CitiesAround)]
             IN /\ Location.longitude = b.max_lon * KmPerDegree
                /\ Location.latitude = b.min_lat * KmPerDegree
          /\ area.area_type = "urban"

----------------------------------------------------------------------------
(* Properties of the grid generation *)

ClinicIndices == 1..Len(clinics_df)
GridsCreated == pc \in {"created", "merged", "written", "KeyError"}

\* latitude within [-90, 90] and longitude within [-180, 180] degrees
ValidLocation(row) ==
    LET degree == IF variant = "DynamicArea" THEN KmPerDegree * UnitsPerKm ELSE 1
    IN /\ Abs(row.latitude) <= 90 * degree
       /\ Abs(row.longitude) <= 180 * degree

\* C22: a clinic row with a latitude or longitude outside the valid range
\* gets no grid (it is rejected with InvalidLocation), every other row of
\* the file gets its grid
C22_InvalidLocationRejected ==
    GridsCreated =>
        \A k \in ClinicIndices :
            ValidLocation(clinics_df[k])
                <=> \E g \in 1..Len(grids) : grids[g].clinic_id = clinics_df[k].id

\* C23: the weekly hours of the grid of one clinic are the clinic's
\* weekly_availability_hours, whatever size the classifier gave the grid,
\* so both sum to the same total
C23_HoursUnscaled ==
    GridsCreated =>
        /\ Len(grids) = Len(clinics_df)
        /\ \A k \in ClinicIndices :
               grids[k].weekly_hours = clinics_df[k].weekly_availability_hours
        /\ SumSeq([k \in 1..Len(grids) |-> grids[k].weekly_hours])
              = SumSeq([k \in ClinicIndices |-> clinics_df[k].weekly_availability_hours])

\* C29: the DynamicArea run with a merge distance of zero or less writes one
\* record per grid, with all_clinic_ids = [clinic_id]
C29_NoMergeRunWrites ==
    (variant = "DynamicArea" /\ distance_km <= 0 /\ pc \in {"written", "KeyError"})
        => /\ pc = "written"
           /\ Len(grids_gdf) = Len(grids)
           /\ \A k \in 1..Len(grids_gdf) :
                 /\ grids_gdf[k].clinic_id = grids[k].clinic_id
                 /\ grids_gdf[k].all_clinic_ids = <<grids[k].clinic_id>>

----------------------------------------------------------------------------
(* Properties of the pairwise region splitting *)

\* C28: the regions find_regions_for_grid_pair returns for two grids cover
\* what the two grids cover and share no area, also for two grids that
\* only touch
C28_PairLosesNoTerritory ==
    pc = "pair" =>
        /\ UnaryUnion({regions[a].geometry : a \in RegionIndices})
              = UnaryUnion({grids[1].geometry, grids[2].geometry})
        /\ \A a, b \in RegionIndices :
              a # b => Area(Intersection(regions[a].geometry, regions[b].geometry)) = 0

----------------------------------------------------------------------------
(* Properties of the downsampling *)

\* what downsample_clinics returned: n_clinics rows, no row twice, active
\* rows only
ExactSample ==
    /\ pc = "done"
    /\ Len(returned) = n_clinics
    /\ \A x, y \in 1..Len(returned) : x # y => returned[x] # returned[y]
    /\ \A x \in 1..Len(returned) : clinics_df[returned[x]].active = 1

\* C30: downsample_clinics terminates and returns exactly n_clinics distinct
\* active clinics, for every sample size from 1 to the number of active
\* clinics and every distribution of the clinics over postcode areas
C30_TerminatesWithExactSample == <>ExactSample

\* a run whose quota loop gave an area a quota above its number of clinics,
\* so that the top-up filled the sample
C30_Witness ==
    /\ ExactSample
    /\ \E k \in 1..Len(n_per_area) :
          n_per_area[k].n > Cardinality(area_clinics(clinics_df, n_per_area[k].area))
    /\ Len(Concat(sampled)) < n_clinics

====
